---- MODULE Spec2Model ----
\* DeepCrate: the analysis core (Camelot wheel, tag parsing, BPM normalisation,
\* key detection, file hash, file name heuristic, analysis window, energy,
\* preview cue, review flags, analyze_track), the manual override and the
\* scan of a file by the services and by the CLI, as state machines.
\*
\* Text is modelled as a sequence of one-character strings ("8A" is <<"8","A">>),
\* so that strip / upper / int / formatting are computed, not assumed.
\* Scores are in tenths (1.0 is 10, 0.8 is 8, 0.5 is 5, 0.2 is 2).
EXTENDS Integers, Sequences, FiniteSets, TLC

VARIABLES
    pc,        \* "ready" before the call, "done" / "stored" after it
    fn,        \* the function or service called last
    args,      \* its arguments
    ret,       \* what it returned
    track,     \* the row of the tracks table for the file: <<>> or <<Track>>
    override,  \* the row of track_overrides for the file: <<>> or <<row>>
    calls,     \* the estimators the last operation invoked, in order
    tables     \* the planner's tables: the tracks by id, the rows of set_tracks
               \* and the gaps of the one set modelled

vars == <<pc, fn, args, ret, track, override, calls, tables>>

\* No track, no set and no gap in the planner's tables.
NoSets == [tracks |-> <<>>, set_tracks |-> <<>>, gaps |-> <<>>]

\* No row in tracks and none in track_overrides.
EmptyLibrary == track = <<>> /\ override = <<>> /\ tables = NoSets

\* ---------------------------------------------------------------- bounds

\* Largest run of blanks put around a generated text.
MaxPad == 1

\* Most digits before the decimal separator of a generated BPM tag.
MaxIntDigits == 3

\* Largest numerator of a raw tempo handed to _normalize_bpm.
MaxRawBpm == 800

\* ------------------------------------------------------- text primitives

LOWER == <<"a","b","c","d","e","f","g","h","i","j","k","l","m",
           "n","o","p","q","r","s","t","u","v","w","x","y","z">>
UPPER == <<"A","B","C","D","E","F","G","H","I","J","K","L","M",
           "N","O","P","Q","R","S","T","U","V","W","X","Y","Z">>

DIGITS == <<"0","1","2","3","4","5","6","7","8","9">>

IsDigit(c) == \E i \in 1..10 : DIGITS[i] = c

DigitVal(c) == (CHOOSE i \in 1..10 : DIGITS[i] = c) - 1

\* str.isspace for the characters of the model's alphabet.
IsSpace(c) == c = " "

UpperChar(c) ==
    IF \E i \in 1..26 : LOWER[i] = c
    THEN UPPER[CHOOSE i \in 1..26 : LOWER[i] = c]
    ELSE c

LowerChar(c) ==
    IF \E i \in 1..26 : UPPER[i] = c
    THEN LOWER[CHOOSE i \in 1..26 : UPPER[i] = c]
    ELSE c

\* str.upper()
Upper(s) == [i \in 1..Len(s) |-> UpperChar(s[i])]

\* str.lower()
Lower(s) == [i \in 1..Len(s) |-> LowerChar(s[i])]

RECURSIVE LStrip(_)
LStrip(s) == IF s # <<>> /\ IsSpace(Head(s)) THEN LStrip(Tail(s)) ELSE s

RECURSIVE RStrip(_)
RStrip(s) ==
    IF s # <<>> /\ IsSpace(s[Len(s)]) THEN RStrip(SubSeq(s, 1, Len(s) - 1)) ELSE s

\* str.strip()
Strip(s) == RStrip(LStrip(s))

\* re.sub(r"\s+", "", s)
RemoveSpaces(s) == SelectSeq(s, LAMBDA c : ~IsSpace(c))

RECURSIVE DigitsValue(_)
DigitsValue(s) ==
    IF s = <<>> THEN 0
    ELSE 10 * DigitsValue(SubSeq(s, 1, Len(s) - 1)) + DigitVal(s[Len(s)])

AllDigits(s) == s # <<>> /\ \A i \in 1..Len(s) : IsDigit(s[i])

\* int(text): blanks around the literal are dropped, one sign is allowed, the
\* rest must be decimal digits; anything else raises ValueError (ok = FALSE).
PyInt(text) ==
    LET t == Strip(text)
        signed == t # <<>> /\ Head(t) \in {"+", "-"}
        body == IF signed THEN Tail(t) ELSE t
    IN  IF AllDigits(body)
        THEN [ok |-> TRUE,
              val |-> IF signed /\ Head(t) = "-" THEN 0 - DigitsValue(body)
                      ELSE DigitsValue(body)]
        ELSE [ok |-> FALSE, val |-> 0]

RECURSIVE NatToStr(_)
\* str(n) for n >= 0, the "{number}" of an f-string.
NatToStr(n) ==
    IF n < 10 THEN <<DIGITS[n + 1]>>
    ELSE NatToStr(n \div 10) \o <<DIGITS[(n % 10) + 1]>>

Spaces(n) == [i \in 1..n |-> " "]

\* Optional values: <<>> is None, <<v>> is the value v.
None == <<>>

Some(v) == <<v>>

\* The value of an optional, or the default: dict.get(key, default), x or default.
GetOr(option, default) == IF option = None THEN default ELSE option[1]

\* Texts over the alphabet, of length n at most.
TextsUpTo(alphabet, n) == UNION { [1..m -> alphabet] : m \in 0..n }

Abs(x) == IF x < 0 THEN 0 - x ELSE x

Min(x, y) == IF x <= y THEN x ELSE y

Max(x, y) == IF x >= y THEN x ELSE y

\* ---------------------------------------------------------- camelot.py

MAJOR == <<"m","a","j","o","r">>
MINOR == <<"m","i","n","o","r">>

KeyName(note, mode) == note \o <<" ">> \o mode

\* KEY_TO_CAMELOT in the dict's insertion order: <<key name, Camelot code>>.
KEY_TO_CAMELOT == <<
    <<KeyName(<<"C">>, MAJOR), <<"8","B">>>>,
    <<KeyName(<<"G">>, MAJOR), <<"9","B">>>>,
    <<KeyName(<<"D">>, MAJOR), <<"1","0","B">>>>,
    <<KeyName(<<"A">>, MAJOR), <<"1","1","B">>>>,
    <<KeyName(<<"E">>, MAJOR), <<"1","2","B">>>>,
    <<KeyName(<<"B">>, MAJOR), <<"1","B">>>>,
    <<KeyName(<<"F","#">>, MAJOR), <<"2","B">>>>,
    <<KeyName(<<"G","b">>, MAJOR), <<"2","B">>>>,
    <<KeyName(<<"D","b">>, MAJOR), <<"3","B">>>>,
    <<KeyName(<<"C","#">>, MAJOR), <<"3","B">>>>,
    <<KeyName(<<"A","b">>, MAJOR), <<"4","B">>>>,
    <<KeyName(<<"E","b">>, MAJOR), <<"5","B">>>>,
    <<KeyName(<<"B","b">>, MAJOR), <<"6","B">>>>,
    <<KeyName(<<"F">>, MAJOR), <<"7","B">>>>,
    <<KeyName(<<"C">>, MINOR), <<"5","A">>>>,
    <<KeyName(<<"G">>, MINOR), <<"6","A">>>>,
    <<KeyName(<<"D">>, MINOR), <<"7","A">>>>,
    <<KeyName(<<"A">>, MINOR), <<"8","A">>>>,
    <<KeyName(<<"E">>, MINOR), <<"9","A">>>>,
    <<KeyName(<<"B">>, MINOR), <<"1","0","A">>>>,
    <<KeyName(<<"F","#">>, MINOR), <<"1","1","A">>>>,
    <<KeyName(<<"G","b">>, MINOR), <<"1","1","A">>>>,
    <<KeyName(<<"D","b">>, MINOR), <<"1","2","A">>>>,
    <<KeyName(<<"C","#">>, MINOR), <<"1","2","A">>>>,
    <<KeyName(<<"A","b">>, MINOR), <<"1","A">>>>,
    <<KeyName(<<"E","b">>, MINOR), <<"2","A">>>>,
    <<KeyName(<<"B","b">>, MINOR), <<"3","A">>>>,
    <<KeyName(<<"F">>, MINOR), <<"4","A">>>> >>

\* The keys of KEY_TO_CAMELOT.
KeyNames == {KEY_TO_CAMELOT[i][1] : i \in 1..Len(KEY_TO_CAMELOT)}

\* dict.get(key, ""): a dict literal keeps the last value of a repeated key.
DictGet(d, key) ==
    IF \E i \in 1..Len(d) : d[i][1] = key
    THEN LET last == CHOOSE i \in 1..Len(d) :
                        /\ d[i][1] = key
                        /\ \A j \in (i + 1)..Len(d) : d[j][1] # key
         IN  d[last][2]
    ELSE <<>>

RECURSIVE BuildCamelotToKeyLast(_, _)
\* BuildCamelotToKey without the "if v not in" test: a later key name of a code
\* replaces the earlier one.
BuildCamelotToKeyLast(items, acc) ==
    IF items = <<>> THEN acc
    ELSE LET k == Head(items)[1]
             v == Head(items)[2]
         IN  BuildCamelotToKeyLast(
                 Tail(items),
                 Append(SelectSeq(acc, LAMBDA e : e[1] # v), <<v, k>>))

RECURSIVE BuildCamelotToKey(_, _)
\* The loop that fills CAMELOT_TO_KEY: the first key name of a code is kept.
BuildCamelotToKey(items, acc) ==
    IF items = <<>> THEN acc
    ELSE LET k == Head(items)[1]
             v == Head(items)[2]
         IN  IF \E i \in 1..Len(acc) : acc[i][1] = v
             THEN BuildCamelotToKey(Tail(items), acc)
             ELSE BuildCamelotToKey(Tail(items), Append(acc, <<v, k>>))

CAMELOT_TO_KEY == BuildCamelotToKey(KEY_TO_CAMELOT, <<>>)

CHROMA_MAJOR == <<
    KeyName(<<"C">>, MAJOR), KeyName(<<"C","#">>, MAJOR), KeyName(<<"D">>, MAJOR),
    KeyName(<<"E","b">>, MAJOR), KeyName(<<"E">>, MAJOR), KeyName(<<"F">>, MAJOR),
    KeyName(<<"F","#">>, MAJOR), KeyName(<<"G">>, MAJOR), KeyName(<<"A","b">>, MAJOR),
    KeyName(<<"A">>, MAJOR), KeyName(<<"B","b">>, MAJOR), KeyName(<<"B">>, MAJOR) >>

CHROMA_MINOR == <<
    KeyName(<<"C">>, MINOR), KeyName(<<"C","#">>, MINOR), KeyName(<<"D">>, MINOR),
    KeyName(<<"E","b">>, MINOR), KeyName(<<"E">>, MINOR), KeyName(<<"F">>, MINOR),
    KeyName(<<"F","#">>, MINOR), KeyName(<<"G">>, MINOR), KeyName(<<"A","b">>, MINOR),
    KeyName(<<"A">>, MINOR), KeyName(<<"B","b">>, MINOR), KeyName(<<"B">>, MINOR) >>

key_name_to_camelot(key_name) == DictGet(KEY_TO_CAMELOT, key_name)

\* CAMELOT_TO_KEY.get(code, "")
camelot_to_key_name(code) == DictGet(CAMELOT_TO_KEY, code)

NoParse == [ok |-> FALSE, number |-> 0, letter |-> ""]

\* parse_camelot: [ok |-> FALSE, ...] stands for None.
parse_camelot(camelot) ==
    LET c == Upper(Strip(camelot))
    IN  IF Len(c) < 2 THEN NoParse
        ELSE LET letter == c[Len(c)]
                 number == PyInt(SubSeq(c, 1, Len(c) - 1))
             IN  IF letter \notin {"A", "B"} THEN NoParse
                 ELSE IF ~number.ok THEN NoParse
                 ELSE IF ~(1 <= number.val /\ number.val <= 12) THEN NoParse
                 ELSE [ok |-> TRUE, number |-> number.val, letter |-> letter]

\* f"{number}{letter}"
FormatCamelot(number, letter) == NatToStr(number) \o <<letter>>

\* compatible_keys with the neighbours computed without the wrap-around.
compatible_keys_nowrap(camelot) ==
    LET parsed == parse_camelot(camelot)
    IN  IF ~parsed.ok THEN <<>>
        ELSE LET number == parsed.number
                 letter == parsed.letter
                 other == IF letter = "A" THEN "B" ELSE "A"
             IN  << FormatCamelot(number, letter),
                    FormatCamelot(number + 1, letter),
                    FormatCamelot(Abs(number - 1), letter),
                    FormatCamelot(number, other) >>

\* compatible_keys that also appends the relative key of the upper neighbour.
compatible_keys_five(camelot) ==
    LET parsed == parse_camelot(camelot)
    IN  IF ~parsed.ok THEN <<>>
        ELSE LET number == parsed.number
                 letter == parsed.letter
                 up == (number % 12) + 1
                 down == ((number - 2) % 12) + 1
                 other == IF letter = "A" THEN "B" ELSE "A"
             IN  << FormatCamelot(number, letter),
                    FormatCamelot(up, letter),
                    FormatCamelot(down, letter),
                    FormatCamelot(number, other),
                    FormatCamelot(up, other) >>

compatible_keys(camelot) ==
    LET parsed == parse_camelot(camelot)
    IN  IF ~parsed.ok THEN <<>>
        ELSE LET number == parsed.number
                 letter == parsed.letter
                 up == (number % 12) + 1
                 down == ((number - 2) % 12) + 1
                 other == IF letter = "A" THEN "B" ELSE "A"
             IN  << FormatCamelot(number, letter),
                    FormatCamelot(up, letter),
                    FormatCamelot(down, letter),
                    FormatCamelot(number, other) >>

InSeq(x, s) == \E i \in 1..Len(s) : s[i] = x

\* key_compatibility_score, in tenths.
key_compatibility_score(key_a, key_b) ==
    IF key_a = <<>> \/ key_b = <<>> THEN 5
    ELSE LET parsed_a == parse_camelot(key_a)
             parsed_b == parse_camelot(key_b)
         IN  IF ~parsed_a.ok \/ ~parsed_b.ok THEN 5
             ELSE IF Upper(key_a) = Upper(key_b) THEN 10
             ELSE IF InSeq(Upper(key_b),
                           [i \in 1..Len(compatible_keys(key_a)) |->
                               Upper(compatible_keys(key_a)[i])])
                  THEN 8
             ELSE LET d == Abs(parsed_a.number - parsed_b.number)
                      dist == Min(d, 12 - d)
                  IN  IF dist = 2 /\ parsed_a.letter = parsed_b.letter THEN 5
                      ELSE 2

\* ------------------------------------------------- the wheel's operations

\* Texts a caller may hand to the wheel: a number 0..13 and a letter, in either
\* case, with up to MaxPad blanks on each side, and some text that is no code.
CamelotTexts ==
    { Spaces(l) \o NatToStr(n) \o <<c>> \o Spaces(r) :
        l \in 0..MaxPad, n \in 0..13, c \in {"A", "a", "B", "C"}, r \in 0..MaxPad }
    \cup { <<>>, <<"X","Y">>, <<"A">>, <<"8">>, <<"8"," ","A">>, <<"0","8","A">>,
           <<"-","8","A">>, <<"+","8","B">> }

Codes == { FormatCamelot(n, l) : n \in 1..12, l \in {"A", "B"} }

WheelInputs == CamelotTexts \cup KeyNames \cup { KeyName(<<"H">>, MAJOR) }

InitWheel ==
    /\ pc = "ready"
    /\ fn = "none"
    /\ args \in { <<t>> : t \in WheelInputs }
    /\ ret = <<>>
    /\ EmptyLibrary
    /\ calls = <<>>

ParseCamelot ==
    /\ pc = "ready"
    /\ Len(args) = 1
    /\ pc' = "done"
    /\ fn' = "parse_camelot"
    /\ ret' = parse_camelot(args[1])
    /\ UNCHANGED <<args, track, override, calls, tables>>

CompatibleKeys ==
    /\ pc = "ready"
    /\ Len(args) = 1
    /\ pc' = "done"
    /\ fn' = "compatible_keys"
    /\ ret' = compatible_keys(args[1])
    /\ UNCHANGED <<args, track, override, calls, tables>>

\* key name -> code -> key name through the two tables.
KeyNameRoundTrip ==
    /\ pc = "ready"
    /\ Len(args) = 1
    /\ pc' = "done"
    /\ fn' = "name_code_name"
    /\ ret' = camelot_to_key_name(key_name_to_camelot(args[1]))
    /\ UNCHANGED <<args, track, override, calls, tables>>

\* code -> key name -> code through the two tables.
CodeRoundTrip ==
    /\ pc = "ready"
    /\ Len(args) = 1
    /\ pc' = "done"
    /\ fn' = "code_name_code"
    /\ ret' = key_name_to_camelot(camelot_to_key_name(args[1]))
    /\ UNCHANGED <<args, track, override, calls, tables>>

NextWheel == ParseCamelot \/ CompatibleKeys \/ KeyNameRoundTrip \/ CodeRoundTrip

SpecWheel == InitWheel /\ [][NextWheel]_vars

InitScore ==
    /\ pc = "ready"
    /\ fn = "none"
    /\ args \in { <<a, b>> : a \in CamelotTexts, b \in CamelotTexts }
    /\ ret = <<>>
    /\ EmptyLibrary
    /\ calls = <<>>

KeyCompatibilityScore ==
    /\ pc = "ready"
    /\ Len(args) = 2
    /\ pc' = "done"
    /\ fn' = "key_compatibility_score"
    /\ ret' = key_compatibility_score(args[1], args[2])
    /\ UNCHANGED <<args, track, override, calls, tables>>

NextScore == KeyCompatibilityScore

SpecScore == InitScore /\ [][NextScore]_vars

\* --------------------------------------------------- analyzer.py: tempo

\* A float is modelled as an exact fraction [n, d] in lowest terms, d > 0:
\* halving, doubling and comparing are then exact, as they are for the doubles
\* of this range.
RECURSIVE Gcd(_, _)
Gcd(a, b) == IF b = 0 THEN a ELSE Gcd(b, a % b)

Rat(n, d) ==
    LET g == Gcd(Abs(n), d)
    IN  [n |-> n \div g, d |-> d \div g]

RatLess(a, b) == a.n * b.d < b.n * a.d

RatLeq(a, b) == a.n * b.d <= b.n * a.d

Whole(k) == [n |-> k, d |-> 1]

\* bpm /= 2.0
Halve(x) == Rat(x.n, 2 * x.d)

\* bpm *= 2.0
Double(x) == Rat(2 * x.n, x.d)

RECURSIVE Pow(_, _)
Pow(b, e) == IF e = 0 THEN 1 ELSE b * Pow(b, e - 1)

\* A double holds x exactly when its denominator is a power of two.
IsBinary(x) == \E e \in 0..30 : Pow(2, e) = x.d

\* round(x, 1) for x >= 0, as the set of values the float arithmetic can give:
\* the nearest multiple of 0.1; an exact tie goes to the even tenth when the
\* double holds x exactly, and to either side when the double only
\* approximates x (the stored value lies just above or just below the tie).
Round1(x) ==
    LET q == (10 * x.n) \div x.d
        twiceRem == 2 * ((10 * x.n) % x.d)
    IN  IF twiceRem < x.d THEN { Rat(q, 10) }
        ELSE IF twiceRem > x.d THEN { Rat(q + 1, 10) }
        ELSE IF IsBinary(x) THEN { Rat(IF q % 2 = 0 THEN q ELSE q + 1, 10) }
        ELSE { Rat(q, 10), Rat(q + 1, 10) }

RECURSIVE DoubleWhileBelow(_, _)
\* while bpm < 70.0: bpm *= 2.0
DoubleWhileBelow(bpm, low) ==
    IF RatLess(bpm, low) THEN DoubleWhileBelow(Double(bpm), low) ELSE bpm

RECURSIVE HalveWhileAbove(_, _)
\* while bpm > 190.0: bpm /= 2.0
HalveWhileAbove(bpm, high) ==
    IF RatLess(high, bpm) THEN HalveWhileAbove(Halve(bpm), high) ELSE bpm

\* _normalize_bpm with "if bpm < 70.0" in place of the while loop.
normalize_bpm_once(raw_bpm) ==
    IF raw_bpm.n <= 0 THEN Whole(0)
    ELSE HalveWhileAbove(
             IF RatLess(raw_bpm, Whole(70)) THEN Double(raw_bpm) ELSE raw_bpm,
             Whole(190))

\* _normalize_bpm
normalize_bpm(raw_bpm) ==
    IF raw_bpm.n <= 0 THEN Whole(0)
    ELSE HalveWhileAbove(DoubleWhileBelow(raw_bpm, Whole(70)), Whole(190))

\* Index of the first digit of s, 0 when it has none.
FirstDigit(s) ==
    IF \E i \in 1..Len(s) : IsDigit(s[i])
    THEN CHOOSE i \in 1..Len(s) :
            IsDigit(s[i]) /\ \A j \in 1..(i - 1) : ~IsDigit(s[j])
    ELSE 0

\* Last index of the run of digits of s that starts at i.
DigitRunEnd(s, i) ==
    CHOOSE j \in i..Len(s) :
        /\ \A k \in i..j : IsDigit(s[k])
        /\ (j = Len(s) \/ ~IsDigit(s[j + 1]))

\* re.search(r"\d+(?:[\.,]\d+)?", value): the leftmost match, greedy. [ok,
\* whole, frac]: the digits before and after the separator (frac may be empty).
SearchNumber(value) ==
    LET i == FirstDigit(value)
    IN  IF i = 0 THEN [ok |-> FALSE, whole |-> <<>>, frac |-> <<>>]
        ELSE LET j == DigitRunEnd(value, i)
                 hasFrac == /\ j + 2 <= Len(value)
                            /\ value[j + 1] \in {".", ","}
                            /\ IsDigit(value[j + 2])
             IN  [ok |-> TRUE,
                  whole |-> SubSeq(value, i, j),
                  frac |-> IF hasFrac
                           THEN SubSeq(value, j + 2, DigitRunEnd(value, j + 2))
                           ELSE <<>>]

\* float(numeric) of the matched token, the comma read as a decimal point.
TokenValue(m) ==
    Rat(DigitsValue(m.whole) * Pow(10, Len(m.frac)) + DigitsValue(m.frac),
        Pow(10, Len(m.frac)))

\* parse_bpm_tag with "if bpm > 260.0" in place of the while loop.
parse_bpm_tag_once(value) ==
    IF value = <<>> THEN { Whole(0) }
    ELSE LET m == SearchNumber(value)
         IN  IF ~m.ok THEN { Whole(0) }
             ELSE LET bpm == TokenValue(m)
                      halved == IF RatLess(Whole(260), bpm) THEN Halve(bpm) ELSE bpm
                  IN  IF bpm.n <= 0 THEN { Whole(0) }
                      ELSE IF RatLess(halved, Whole(40)) \/ RatLess(Whole(260), halved)
                           THEN { Whole(0) }
                      ELSE Round1(halved)

\* parse_bpm_tag: the set of values the call can return (one value, or the two
\* neighbours of a rounding tie that the double cannot hold exactly).
parse_bpm_tag(value) ==
    IF value = <<>> THEN { Whole(0) }
    ELSE LET m == SearchNumber(value)
         IN  IF ~m.ok THEN { Whole(0) }
             ELSE LET bpm == TokenValue(m)
                      halved == HalveWhileAbove(bpm, Whole(260))
                  IN  IF bpm.n <= 0 THEN { Whole(0) }
                      ELSE IF RatLess(halved, Whole(40)) \/ RatLess(Whole(260), halved)
                           THEN { Whole(0) }
                      ELSE Round1(halved)

\* Digits the generated BPM tags are written with.
BpmDigits == {"0", "1", "2", "4", "6"}

RECURSIVE DigitStrings(_)
\* The strings of at most k digits of BpmDigits.
DigitStrings(k) ==
    IF k = 0 THEN { <<>> }
    ELSE LET shorter == DigitStrings(k - 1)
         IN  shorter \cup { <<c>> \o t : c \in BpmDigits, t \in { u \in shorter : Len(u) = k - 1 } }

\* Values of a BPM tag: free text around a number of at most MaxIntDigits
\* digits, with or without a decimal part after a point or a comma.
BpmTexts ==
    { pre \o whole \o frac \o suf :
        pre \in { <<>>, <<"-">>, <<"x">>, <<" ">>, <<".">> },
        whole \in DigitStrings(MaxIntDigits),
        frac \in { <<>>, <<".">>, <<".","0">>, <<".","5">>, <<",","5">>, <<".","3">>,
                   <<",","2","5">>, <<",","x">> },
        suf \in { <<>>, <<" ","B","P","M">>, <<",","7">> } }

\* Raw tempi handed to _normalize_bpm: n/d for n up to MaxRawBpm.
RawTempi == { Rat(n, d) : n \in (0 - 2)..MaxRawBpm, d \in {1, 3, 8} }

InitBpmTag ==
    /\ pc = "ready"
    /\ fn = "none"
    /\ args \in { <<t>> : t \in BpmTexts }
    /\ ret = <<>>
    /\ EmptyLibrary
    /\ calls = <<>>

ParseBpmTag ==
    /\ pc = "ready"
    /\ pc' = "done"
    /\ fn' = "parse_bpm_tag"
    /\ ret' \in parse_bpm_tag(args[1])
    /\ UNCHANGED <<args, track, override, calls, tables>>

NextBpmTag == ParseBpmTag

SpecBpmTag == InitBpmTag /\ [][NextBpmTag]_vars

InitNormalize ==
    /\ pc = "ready"
    /\ fn = "none"
    /\ args \in { <<t>> : t \in RawTempi }
    /\ ret = <<>>
    /\ EmptyLibrary
    /\ calls = <<>>

NormalizeBpm ==
    /\ pc = "ready"
    /\ pc' = "done"
    /\ fn' = "_normalize_bpm"
    /\ ret' = normalize_bpm(args[1])
    /\ UNCHANGED <<args, track, override, calls, tables>>

NextNormalize == NormalizeBpm

SpecNormalize == InitNormalize /\ [][NextNormalize]_vars

\* ------------------------------------------------ analyzer.py: key tags

\* The characters U+266D and U+266F, each one character of a text.
FLAT_SIGN == "flat"
SHARP_SIGN == "sharp"

\* _NOTE_ALIAS_TO_CANONICAL
NOTE_ALIAS_TO_CANONICAL == <<
    << <<"C">>, <<"C">> >>,      << <<"B","#">>, <<"C">> >>,
    << <<"C","#">>, <<"C","#">> >>, << <<"D","B">>, <<"D","b">> >>,
    << <<"D">>, <<"D">> >>,      << <<"D","#">>, <<"E","b">> >>,
    << <<"E","B">>, <<"E","b">> >>, << <<"E">>, <<"E">> >>,
    << <<"F","B">>, <<"E">> >>,  << <<"E","#">>, <<"F">> >>,
    << <<"F">>, <<"F">> >>,      << <<"F","#">>, <<"F","#">> >>,
    << <<"G","B">>, <<"G","b">> >>, << <<"G">>, <<"G">> >>,
    << <<"G","#">>, <<"A","b">> >>, << <<"A","B">>, <<"A","b">> >>,
    << <<"A">>, <<"A">> >>,      << <<"A","#">>, <<"B","b">> >>,
    << <<"B","B">>, <<"B","b">> >>, << <<"B">>, <<"B">> >>,
    << <<"C","B">>, <<"B">> >> >>

\* The alternatives of the regex group (maj(?:or)?|min(?:or)?|m), lower case.
MODE_TOKENS ==
    { <<"m","a","j">>, MAJOR, <<"m","i","n">>, MINOR, <<"m">> }

\* re.match(r"^\s*([A-Ga-g])\s*([#b(flat)(sharp)]?)\s*(maj(?:or)?|min(?:or)?|m)?\s*$",
\*          cleaned, re.IGNORECASE): under IGNORECASE the class of group 2 also
\* matches "B". [ok, letter, accidental, mode]: the three groups as matched.
MatchNote(cleaned) ==
    LET fail == [ok |-> FALSE, letter |-> "", accidental |-> "", mode |-> <<>>]
        s0 == LStrip(cleaned)
    IN  IF s0 = <<>> \/ UpperChar(Head(s0)) \notin {"A","B","C","D","E","F","G"}
        THEN fail
        ELSE LET s1 == LStrip(Tail(s0))
                 hasAcc == s1 # <<>> /\ Head(s1) \in {"#", "b", "B", FLAT_SIGN, SHARP_SIGN}
                 s2 == IF hasAcc THEN LStrip(Tail(s1)) ELSE s1
                 rest == RStrip(s2)
             IN  IF rest = <<>> \/ Lower(rest) \in MODE_TOKENS
                 THEN [ok |-> TRUE, letter |-> Head(s0),
                       accidental |-> IF hasAcc THEN Head(s1) ELSE "",
                       mode |-> rest]
                 ELSE fail

\* The first entry of KEY_TO_CAMELOT whose name, blanks removed and upper-cased,
\* equals key_compact; 0 when there is none.
FirstKeyNameMatch(key_compact) ==
    IF \E i \in 1..Len(KEY_TO_CAMELOT) :
            Upper(RemoveSpaces(KEY_TO_CAMELOT[i][1])) = key_compact
    THEN CHOOSE i \in 1..Len(KEY_TO_CAMELOT) :
            /\ Upper(RemoveSpaces(KEY_TO_CAMELOT[i][1])) = key_compact
            /\ \A j \in 1..(i - 1) :
                  Upper(RemoveSpaces(KEY_TO_CAMELOT[j][1])) # key_compact
    ELSE 0

\* Lines 171-182 of parse_key_tag_to_camelot: from the regex groups to the code.
NoteToCamelot(m) ==
    LET letter == UpperChar(m.letter)
        accidental == IF m.accidental \in {"#", SHARP_SIGN} THEN <<"#">>
                      ELSE IF m.accidental \in {"b", FLAT_SIGN} THEN <<"B">>
                      ELSE <<>>
        mode_token == Lower(m.mode)
        is_minor == /\ mode_token # <<>>
                    /\ Head(mode_token) = "m"
                    /\ ~(Len(mode_token) >= 3 /\ SubSeq(mode_token, 1, 3) = <<"m","a","j">>)
        canonical_note == DictGet(NOTE_ALIAS_TO_CANONICAL, <<letter>> \o accidental)
    IN  IF canonical_note = <<>> THEN <<>>
        ELSE key_name_to_camelot(
                 KeyName(canonical_note, IF is_minor THEN MINOR ELSE MAJOR))

parse_key_tag_to_camelot(value) ==
    IF value = <<>> THEN <<>>
    ELSE LET cleaned == Strip(value)
             parsed_camelot == parse_camelot(cleaned)
             key_compact == Upper(RemoveSpaces(cleaned))
             hit == FirstKeyNameMatch(key_compact)
             m == MatchNote(cleaned)
         IN  IF parsed_camelot.ok
             THEN FormatCamelot(parsed_camelot.number, parsed_camelot.letter)
             ELSE IF hit # 0 THEN KEY_TO_CAMELOT[hit][2]
             ELSE IF ~m.ok THEN <<>>
             ELSE NoteToCamelot(m)

NoteLetters == {"A","B","C","D","E","F","G","a","b","c","d","e","f","g"}

Accidentals == { <<>>, <<"#">>, <<"b">>, <<"B">>, <<FLAT_SIGN>>, <<SHARP_SIGN>> }

\* Mode words as tags write them; the last one is no mode word.
ModeWords ==
    { <<>>, <<"m">>, <<"M">>, <<"m","i","n">>, MINOR, <<"m","a","j">>, MAJOR,
      <<"M","a","j","o","r">>, <<"M","I","N","O","R">>, <<"m","o","l","l">> }

\* Note-pattern tags: a note letter, an accidental or none, a mode word or
\* none, with up to MaxPad blanks before the mode word.
NoteTexts ==
    { <<l>> \o a \o Spaces(g) \o w :
        l \in NoteLetters, a \in Accidentals, g \in 0..MaxPad, w \in ModeWords }

\* Values of a key tag: note patterns, Camelot codes, the key names as listed,
\* upper-cased, lower-cased, without blanks and padded, and other text.
KeyTagTexts ==
    NoteTexts \cup CamelotTexts \cup KeyNames
    \cup { Upper(k) : k \in KeyNames } \cup { Lower(k) : k \in KeyNames }
    \cup { RemoveSpaces(k) : k \in KeyNames }
    \cup { Spaces(MaxPad) \o k \o Spaces(MaxPad) : k \in KeyNames }
    \cup { <<"H">>, <<"?","?">>, <<"n","o","t","-","a","-","k","e","y">>, <<" ">> }

InitKeyTag ==
    /\ pc = "ready"
    /\ fn = "none"
    /\ args \in { <<t>> : t \in KeyTagTexts }
    /\ ret = <<>>
    /\ EmptyLibrary
    /\ calls = <<>>

ParseKeyTagToCamelot ==
    /\ pc = "ready"
    /\ pc' = "done"
    /\ fn' = "parse_key_tag_to_camelot"
    /\ ret' = parse_key_tag_to_camelot(args[1])
    /\ UNCHANGED <<args, track, override, calls, tables>>

NextKeyTag == ParseKeyTagToCamelot

SpecKeyTag == InitKeyTag /\ [][NextKeyTag]_vars

\* ---------------------------------------------- analyzer.py: detect_key

\* A correlation is held in hundredths; finite = FALSE is NaN or an infinity.
Corr(v) == [finite |-> TRUE, v |-> v]

NotFinite == [finite |-> FALSE, v |-> 0]

\* _safe_corr(rotated, profile): zero_variance says that the chroma average has
\* a standard deviation below 1e-9 (a rotation does not change it, and the two
\* profiles are constants of non-zero variance); raw is np.corrcoef's value.
safe_corr(zero_variance, raw) ==
    IF zero_variance THEN 0
    ELSE IF ~raw.finite THEN 0
    ELSE raw.v

RECURSIVE KeyLoop(_, _, _, _)
\* for i in range(12): the body for rotation i (here 1..12), then the rest.
KeyLoop(i, best_corr, best_key, chroma) ==
    IF i > 12 THEN best_key
    ELSE LET major_corr == safe_corr(chroma.zero_variance, chroma.major[i])
             minor_corr == safe_corr(chroma.zero_variance, chroma.minor[i])
             corr1 == IF major_corr > best_corr THEN major_corr ELSE best_corr
             key1 == IF major_corr > best_corr THEN CHROMA_MAJOR[i] ELSE best_key
             corr2 == IF minor_corr > corr1 THEN minor_corr ELSE corr1
             key2 == IF minor_corr > corr1 THEN CHROMA_MINOR[i] ELSE key1
         IN  KeyLoop(i + 1, corr2, key2, chroma)

\* detect_key, from the averaged chroma on: y.size and the 24 correlations of
\* the rotated chroma with the two profiles stand for the signal.
detect_key(chroma) ==
    IF chroma.size = 0 THEN <<>>
    ELSE key_name_to_camelot(KeyLoop(1, 0 - 100, <<>>, chroma))

\* The 24 correlations: base everywhere, v1 at place p1 and v2 at place p2
\* (places 1..12 are the major rotations, 13..24 the minor ones).
Peaks(base, p1, v1, p2, v2) ==
    LET at(p) == IF p = p2 THEN v2 ELSE IF p = p1 THEN v1 ELSE base
    IN  [size |-> 1, zero_variance |-> FALSE,
         major |-> [i \in 1..12 |-> at(i)],
         minor |-> [i \in 1..12 |-> at(i + 12)]]

\* Signals handed to detect_key: an empty buffer, a chroma average of zero
\* variance (silence, a constant), and signals with one or two peaks.
KeySignals ==
    { Peaks(b, p1, v1, p2, v2) :
        b \in { NotFinite, Corr(0), Corr(0 - 50) },
        p1 \in 1..24, v1 \in { NotFinite, Corr(30), Corr(80) },
        p2 \in 1..24, v2 \in { Corr(30), Corr(80) } }
    \cup { [Peaks(Corr(0), 1, Corr(0), 1, Corr(0)) EXCEPT !.zero_variance = TRUE],
           [Peaks(Corr(0), 1, Corr(0), 1, Corr(0)) EXCEPT !.size = 0],
           Peaks(NotFinite, 1, NotFinite, 1, NotFinite),
           Peaks(Corr(0), 1, Corr(0), 1, Corr(0)) }

InitDetectKey ==
    /\ pc = "ready"
    /\ fn = "none"
    /\ args \in { <<c>> : c \in KeySignals }
    /\ ret = <<>>
    /\ EmptyLibrary
    /\ calls = <<>>

DetectKey ==
    /\ pc = "ready"
    /\ pc' = "done"
    /\ fn' = "detect_key"
    /\ ret' = detect_key(args[1])
    /\ UNCHANGED <<args, track, override, calls, tables>>

NextDetectKey == DetectKey

SpecDetectKey == InitDetectKey /\ [][NextDetectKey]_vars

\* ------------------------------------------------ analyzer.py: file_hash

\* The number of bytes f.read(1_048_576) reads at most, scaled down.
ReadLimit == 3

\* Longest generated file, in bytes: two bytes beyond what is read.
MaxFileLen == ReadLimit + 2

\* hashlib.md5 and hexdigest, taken as collision-free: the digest stands for
\* the bytes that were fed to it.
Md5Hex(bytes) == <<"md5", bytes>>

\* f.read(n): the first n bytes, or all of them if there are fewer.
ReadBytes(content, n) == SubSeq(content, 1, Min(n, Len(content)))

\* file_hash reading the file to its end.
file_hash_whole(content) == Md5Hex(content)

\* file_hash(path), the file given by its bytes.
file_hash(content) == Md5Hex(ReadBytes(content, ReadLimit))

\* File contents over two byte values.
Contents == TextsUpTo({ 0, 255 }, MaxFileLen)

InitHash ==
    /\ pc = "ready"
    /\ fn = "none"
    /\ args \in Contents \X Contents
    /\ ret = <<>>
    /\ EmptyLibrary
    /\ calls = <<>>

\* file_hash of the first file, of the first file again, and of the second.
FileHash ==
    /\ pc = "ready"
    /\ pc' = "done"
    /\ fn' = "file_hash"
    /\ ret' = <<file_hash(args[1]), file_hash(args[1]), file_hash(args[2])>>
    /\ UNCHANGED <<args, track, override, calls, tables>>

NextHash == FileHash

SpecHash == InitHash /\ [][NextHash]_vars

\* --------------------------------- analyzer.py: parse_filename_metadata

\* Most characters of a generated file name (before an appended suffix).
MaxNameLen == 5

\* PurePath.stem of a file name: the name without its last suffix; a dot that
\* opens or closes the name starts no suffix.
PathStem(name) ==
    LET dots == { i \in 1..Len(name) : name[i] = "." }
        i == IF dots = {} THEN 0 ELSE CHOOSE d \in dots : \A e \in dots : e <= d
    IN  IF 1 < i /\ i < Len(name) THEN SubSeq(name, 1, i - 1) ELSE name

RECURSIVE CollapseSpaces(_)
\* re.sub(r"\s+", " ", s)
CollapseSpaces(s) ==
    IF s = <<>> THEN <<>>
    ELSE IF IsSpace(Head(s)) THEN <<" ">> \o CollapseSpaces(LStrip(s))
    ELSE <<Head(s)>> \o CollapseSpaces(Tail(s))

\* How many blanks open the text.
LeadingSpaces(s) == Len(s) - Len(LStrip(s))

\* The rest of the pattern, \s*-\s*(?P<title>.+)$, matched at the start of r:
\* <<>> for no match, else <<title group>>.  \s* is greedy and gives back one
\* blank when .+ would otherwise be left with nothing.
MatchDashTitle(r) ==
    LET dash == LeadingSpaces(r) + 1
        after == SubSeq(r, dash + 1, Len(r))
    IN  IF dash > Len(r) \/ r[dash] # "-" THEN None
        ELSE IF after = <<>> THEN None
        ELSE IF LStrip(after) # <<>> THEN Some(LStrip(after))
        ELSE Some(<<after[Len(after)]>>)

\* The artist group may end at k: one character at least, the rest matching.
ArtistEnds(stem) ==
    { k \in 1..Len(stem) : MatchDashTitle(SubSeq(stem, k + 1, Len(stem))) # None }

\* The same pattern with a greedy artist group, (?P<artist>.+).
FilenameMatchGreedy(stem) ==
    IF ArtistEnds(stem) = {} THEN None
    ELSE LET k == CHOOSE e \in ArtistEnds(stem) : \A f \in ArtistEnds(stem) : e >= f
         IN  Some([artist |-> SubSeq(stem, 1, k),
                   title |-> MatchDashTitle(SubSeq(stem, k + 1, Len(stem)))[1]])

\* re.match(r"^(?P<artist>.+?)\s*-\s*(?P<title>.+)$", stem): the lazy .+? takes
\* the shortest artist group for which the rest matches.
FilenameMatch(stem) ==
    IF ArtistEnds(stem) = {} THEN None
    ELSE LET k == CHOOSE e \in ArtistEnds(stem) : \A f \in ArtistEnds(stem) : e <= f
         IN  Some([artist |-> SubSeq(stem, 1, k),
                   title |-> MatchDashTitle(SubSeq(stem, k + 1, Len(stem)))[1]])

\* parse_filename_metadata(path), path given by its file name.  The mapping is
\* a record of optional values: None is a key that is not in the mapping.
parse_filename_metadata(name) ==
    LET stem == Strip(CollapseSpaces(PathStem(name)))
        match == FilenameMatch(stem)
        artist == Strip(match[1].artist)
        title == Strip(match[1].title)
    IN  IF stem = <<>> THEN [artist |-> None, title |-> None]
        ELSE IF match # None /\ artist # <<>> /\ title # <<>>
        THEN [artist |-> Some(artist), title |-> Some(title)]
        ELSE [artist |-> None, title |-> Some(stem)]

\* File names: every text of MaxNameLen characters at most over a letter, the
\* hyphen, the blank and the dot, as it is and with a suffix appended ("", "."
\* and ".." name no file).
FileNames ==
    LET stems == TextsUpTo({ "a", "-", " ", "." }, MaxNameLen)
    IN  (stems \cup { t \o <<".","m","p","3">> : t \in stems })
            \ { <<>>, <<".">>, <<".",".">> }

InitFilename ==
    /\ pc = "ready"
    /\ fn = "none"
    /\ args \in { <<n>> : n \in FileNames }
    /\ ret = <<>>
    /\ EmptyLibrary
    /\ calls = <<>>

ParseFilenameMetadata ==
    /\ pc = "ready"
    /\ pc' = "done"
    /\ fn' = "parse_filename_metadata"
    /\ ret' = parse_filename_metadata(args[1])
    /\ UNCHANGED <<args, track, override, calls, tables>>

NextFilename == ParseFilenameMetadata

SpecFilename == InitFilename /\ [][NextFilename]_vars

\* ------------------------------------ analyzer.py: load_analysis_window

\* Longest generated duration, in half seconds.
MaxHalfSeconds == 1000

RatAdd(a, b) == Rat(a.n * b.d + b.n * a.d, a.d * b.d)

RatSub(a, b) == Rat(a.n * b.d - b.n * a.d, a.d * b.d)

RatMul(a, b) == Rat(a.n * b.n, a.d * b.d)

RatMin(a, b) == IF RatLeq(a, b) THEN a ELSE b

RatMax(a, b) == IF RatLeq(b, a) THEN a ELSE b

\* load_analysis_window with a window of 120 s whatever the duration.
load_analysis_window_fixed(duration) ==
    IF duration.n <= 0 \/ RatLess(duration, Whole(180))
    THEN [whole |-> TRUE, offset |-> Whole(0), window |-> RatMax(duration, Whole(0))]
    ELSE LET window == Whole(120)
             offset == RatMin(RatMax(Whole(30), RatMul(duration, Rat(1, 4))),
                              RatMax(RatSub(duration, window), Whole(0)))
         IN  [whole |-> FALSE, offset |-> offset, window |-> window]

\* load_analysis_window(path, duration): what is loaded.  whole says that
\* librosa.load reads the file from its start to its end (window is then the
\* duration, 0 when it is unknown); else offset and window are librosa.load's
\* offset and duration arguments.
load_analysis_window(duration) ==
    IF duration.n <= 0
    THEN [whole |-> TRUE, offset |-> Whole(0), window |-> Whole(0)]
    ELSE IF RatLess(duration, Whole(180))
    THEN [whole |-> TRUE, offset |-> Whole(0), window |-> duration]
    ELSE LET window == RatMin(Whole(120), RatMul(duration, Rat(4, 10)))
             offset == RatMin(RatMax(Whole(30), RatMul(duration, Rat(1, 4))),
                              RatMax(RatSub(duration, window), Whole(0)))
         IN  [whole |-> FALSE, offset |-> offset, window |-> window]

\* Durations from 0 (unknown) on, by half seconds.
Durations == { Rat(k, 2) : k \in 0..MaxHalfSeconds }

InitWindow ==
    /\ pc = "ready"
    /\ fn = "none"
    /\ args \in { <<d>> : d \in Durations }
    /\ ret = <<>>
    /\ EmptyLibrary
    /\ calls = <<>>

LoadAnalysisWindow ==
    /\ pc = "ready"
    /\ pc' = "done"
    /\ fn' = "load_analysis_window"
    /\ ret' = load_analysis_window(args[1])
    /\ UNCHANGED <<args, track, override, calls, tables>>

NextWindow == LoadAnalysisWindow

SpecWindow == InitWindow /\ [][NextWindow]_vars

\* --------------------------- analyzer.py: detect_energy_with_confidence

\* round(x, 2) for x >= 0, as the set of values the float arithmetic can give:
\* the nearest hundredth; at a tie either side, x being the result of inexact
\* products and sums.
Round2(x) ==
    LET q == (100 * x.n) \div x.d
        twiceRem == 2 * ((100 * x.n) % x.d)
    IN  IF twiceRem < x.d THEN { Rat(q, 100) }
        ELSE IF twiceRem > x.d THEN { Rat(q + 1, 100) }
        ELSE { Rat(q, 100), Rat(q + 1, 100) }

\* x / scale without the cap at 1.0.
ScoreUncapped(x, scale) == Rat(x.n * scale.d, x.d * scale.n)

\* min(x / scale, 1.0)
Score(x, scale) == RatMin(Rat(x.n * scale.d, x.d * scale.n), Whole(1))

\* min(max(x, 0.0), 1.0)
Clamp01(x) == RatMin(RatMax(x, Whole(0)), Whole(1))

\* detect_energy_with_confidence with no cap on the scores and no clamp.
detect_energy_with_confidence_unclamped(signal) ==
    LET energy == RatAdd(RatMul(Rat(6, 10), RatMul(signal.rms_mean, Rat(100, 15))),
                         RatMul(Rat(4, 10), RatMul(signal.centroid_mean, Rat(1, 5000))))
    IN  { <<e, Whole(1)>> : e \in Round2(energy) }

\* detect_energy_with_confidence(y, sr): the (energy, confidence) pairs the call
\* can return.  The signal is given by the statistics of its RMS and spectral
\* centroid curves: rms_mean, centroid_mean (Hz), dynamic_range (95th minus
\* 5th percentile of the RMS), variance_ratio = rms_std / (rms_mean + 1e-6),
\* centroid_ratio = centroid_std / (centroid_mean + 1e-6), and silence_ratio,
\* the share of frames below the silence threshold.
detect_energy_with_confidence(signal) ==
    LET rms_score == Score(signal.rms_mean, Rat(15, 100))
        centroid_score == Score(signal.centroid_mean, Whole(5000))
        energy == RatAdd(RatMul(Rat(6, 10), rms_score), RatMul(Rat(4, 10), centroid_score))
        dynamic_score == Score(signal.dynamic_range, Rat(12, 100))
        variance_score == Score(signal.variance_ratio, Rat(8, 10))
        centroid_var_score == Score(signal.centroid_ratio, Rat(8, 10))
        confidence ==
            RatSub(RatAdd(RatAdd(RatAdd(Rat(25, 100), RatMul(Rat(35, 100), dynamic_score)),
                                 RatMul(Rat(20, 100), variance_score)),
                          RatMul(Rat(20, 100), centroid_var_score)),
                   RatMul(Rat(20, 100), signal.silence_ratio))
    IN  { <<e, c>> : e \in Round2(Clamp01(energy)), c \in Round2(Clamp01(confidence)) }

\* detect_energy(y, sr)
detect_energy(signal) == { r[1] : r \in detect_energy_with_confidence(signal) }

\* Mean RMS levels: silence, very quiet, below, at and above the level 0.15 of
\* the full RMS score, and above full scale.
RmsLevels ==
    { Whole(0), Rat(1, 1000), Rat(3, 1000), Rat(3, 100), Rat(75, 1000), Rat(149, 1000),
      Rat(15, 100), Rat(2, 10), Rat(4, 10), Whole(2) }

CentroidLevels == { Whole(0), Whole(1000), Whole(2531), Whole(5000), Whole(8000) }

\* Signals by their statistics; silence is the one of zero RMS, zero spread and
\* silence_ratio 1.
EnergySignals ==
    { [rms_mean |-> r, centroid_mean |-> c, dynamic_range |-> d,
       variance_ratio |-> v, centroid_ratio |-> w, silence_ratio |-> q] :
        r \in RmsLevels, c \in CentroidLevels,
        d \in { Whole(0), Rat(6, 100), Whole(1) },
        v \in { Whole(0), Rat(4, 10), Whole(3) },
        w \in { Whole(0), Whole(2) },
        q \in { Whole(0), Rat(1, 3), Whole(1) } }

InitEnergy ==
    /\ pc = "ready"
    /\ fn = "none"
    /\ args \in { <<g>> : g \in EnergySignals }
    /\ ret = <<>>
    /\ EmptyLibrary
    /\ calls = <<>>

DetectEnergyWithConfidence ==
    /\ pc = "ready"
    /\ pc' = "done"
    /\ fn' = "detect_energy_with_confidence"
    /\ ret' \in detect_energy_with_confidence(args[1])
    /\ UNCHANGED <<args, track, override, calls, tables>>

NextEnergy == DetectEnergyWithConfidence

SpecEnergy == InitEnergy /\ [][NextEnergy]_vars

\* Two signals of the same spectral shape, the second of a higher mean RMS.
EnergyPairs ==
    { <<[rms_mean |-> quiet, centroid_mean |-> c, dynamic_range |-> Rat(6, 100),
         variance_ratio |-> Rat(4, 10), centroid_ratio |-> Rat(4, 10),
         silence_ratio |-> Whole(0)],
        [rms_mean |-> loud, centroid_mean |-> c, dynamic_range |-> Rat(6, 100),
         variance_ratio |-> Rat(4, 10), centroid_ratio |-> Rat(4, 10),
         silence_ratio |-> Whole(0)]>> :
        quiet \in RmsLevels, loud \in RmsLevels, c \in CentroidLevels }

InitLoudness ==
    /\ pc = "ready"
    /\ fn = "none"
    /\ args \in { p \in EnergyPairs : RatLess(p[1].rms_mean, p[2].rms_mean) }
    /\ ret = <<>>
    /\ EmptyLibrary
    /\ calls = <<>>

\* detect_energy of the quieter signal, then of the louder one.
DetectEnergyOfBoth ==
    /\ pc = "ready"
    /\ pc' = "done"
    /\ fn' = "detect_energy"
    /\ ret' \in { <<quiet, loud>> : quiet \in detect_energy(args[1]),
                                     loud \in detect_energy(args[2]) }
    /\ UNCHANGED <<args, track, override, calls, tables>>

NextLoudness == DetectEnergyOfBoth

SpecLoudness == InitLoudness /\ [][NextLoudness]_vars

\* ------------------------------------ analyzer.py: detect_preview_start

\* round(min(max(x, 0.0), max(duration - preview_length, 0.0)), 1)
RoundedCue(x, duration, preview_length) ==
    Round1(RatMin(RatMax(x, Whole(0)),
                  RatMax(RatSub(duration, preview_length), Whole(0))))

\* local_max_start and min_local of a signal of the given length in seconds.
LocalMaxStart(length, preview_length) == RatMax(RatSub(length, preview_length), Whole(0))

MinLocal(length, preview_length) == RatMin(Whole(8), LocalMaxStart(length, preview_length))

\* detect_preview_start(y, sr, duration, analysis_offset, preview_length): the
\* cues the call can return.  The signal is given by its length len(y) / sr,
\* by whether its onset or RMS curve is empty, and by the time of its densest
\* frame among those of the mask (None when the mask holds no frame).
detect_preview_start(signal, duration, analysis_offset, preview_length) ==
    IF RatLeq(duration, RatAdd(preview_length, Whole(5))) THEN { Whole(0) }
    ELSE IF signal.curve_empty
    THEN RoundedCue(analysis_offset, duration, preview_length)
    ELSE IF LocalMaxStart(signal.length, preview_length).n <= 0
    THEN RoundedCue(analysis_offset, duration, preview_length)
    ELSE LET picked == GetOr(signal.densest, MinLocal(signal.length, preview_length))
             local_start == RatMax(RatSub(picked, Whole(4)), Whole(0))
         IN  RoundedCue(RatAdd(analysis_offset, local_start), duration, preview_length)

\* Signals of the given length: the densest frame is the first, the middle or
\* the last instant of the mask [min_local, local_max_start], or the mask
\* holds no frame, or a curve is empty.
SignalsOfLength(length, preview_length) ==
    LET low == MinLocal(length, preview_length)
        high == LocalMaxStart(length, preview_length)
        times == IF high.n <= 0 THEN { None }
                 ELSE { None, Some(low), Some(high),
                        Some(RatMul(RatAdd(low, high), Rat(1, 2))) }
    IN  { [length |-> length, curve_empty |-> FALSE, densest |-> t] : t \in times }
        \cup { [length |-> length, curve_empty |-> TRUE, densest |-> None] }

PreviewInputs ==
    { <<signal, duration, analysis_offset, Whole(30)>> :
        signal \in UNION { SignalsOfLength(length, Whole(30)) :
                             length \in { Whole(0), Whole(20), Whole(32), Whole(36),
                                          Whole(72), Rat(5003, 50), Whole(120) } },
        duration \in { Whole(30), Whole(35), Rat(351, 10), Whole(60), Rat(5003, 50),
                       Rat(901, 5), Whole(200), Whole(400) },
        analysis_offset \in { Whole(0), Whole(30), Rat(901, 20), Whole(50),
                              Whole(100), Whole(380) } }

InitPreview ==
    /\ pc = "ready"
    /\ fn = "none"
    /\ args \in PreviewInputs
    /\ ret = <<>>
    /\ EmptyLibrary
    /\ calls = <<>>

DetectPreviewStart ==
    /\ pc = "ready"
    /\ pc' = "done"
    /\ fn' = "detect_preview_start"
    /\ ret' \in detect_preview_start(args[1], args[2], args[3], args[4])
    /\ UNCHANGED <<args, track, override, calls, tables>>

NextPreview == DetectPreviewStart

SpecPreview == InitPreview /\ [][NextPreview]_vars

\* ----------------------------------- analyzer.py: classify_review_flags

\* " | ".join(reasons), a reason and the separator being one token each.
JoinReasons(reasons) ==
    [i \in 1..(IF reasons = <<>> THEN 0 ELSE 2 * Len(reasons) - 1) |->
        IF i % 2 = 1 THEN reasons[(i + 1) \div 2] ELSE " | "]

\* reasons.append(reason) if the condition holds.
AppendIf(condition, reason) == IF condition THEN <<reason>> ELSE <<>>

\* The reasons of classify_review_flags but the one about the duration.
ReasonsBeforeDuration(energy_level, energy_confidence) ==
    AppendIf(energy_confidence < 550, "Low energy confidence")
        \o AppendIf(energy_level <= 30 \/ energy_level >= 970, "Energy at boundary")

ReasonsAfterDuration(title, artist, bpm, musical_key) ==
    AppendIf(Strip(title) = <<>>, "Missing title")
        \o AppendIf(Strip(artist) = <<>>, "Missing artist")
        \o AppendIf(bpm.n <= 0, "Missing BPM")
        \o AppendIf(Strip(musical_key) = <<>>, "Missing key")

\* classify_review_flags without "duration > 0 and" in line 597.
classify_review_flags_any_short(title, artist, bpm, musical_key, energy_level, energy_confidence, duration) ==
    LET reasons == ReasonsBeforeDuration(energy_level, energy_confidence)
                    \o AppendIf(duration < 450, "Very short duration")
                    \o ReasonsAfterDuration(title, artist, bpm, musical_key)
    IN  <<Len(reasons) > 0, JoinReasons(reasons)>>

\* classify_review_flags; energy_level and energy_confidence are in
\* thousandths, duration is in tenths of a second, bpm is a fraction.
classify_review_flags(title, artist, bpm, musical_key, energy_level, energy_confidence, duration) ==
    LET reasons == ReasonsBeforeDuration(energy_level, energy_confidence)
                    \o AppendIf(duration > 0 /\ duration < 450, "Very short duration")
                    \o ReasonsAfterDuration(title, artist, bpm, musical_key)
    IN  <<Len(reasons) > 0, JoinReasons(reasons)>>

ReviewInputs ==
    { <<title, artist, bpm, musical_key, energy_level, energy_confidence, duration>> :
        title \in { <<>>, <<" ">>, <<"T">> },
        artist \in { <<>>, <<" ">>, <<"A">> },
        bpm \in { Whole(0 - 1), Whole(0), Rat(1, 10), Whole(124) },
        musical_key \in { <<>>, <<" ">>, <<"8","A">> },
        energy_level \in { 0, 30, 31, 500, 969, 970, 1000 },
        energy_confidence \in { 0, 549, 550, 1000 },
        duration \in { 0, 1, 449, 450, 2400 } }

InitReview ==
    /\ pc = "ready"
    /\ fn = "none"
    /\ args \in ReviewInputs
    /\ ret = <<>>
    /\ EmptyLibrary
    /\ calls = <<>>

ClassifyReviewFlags ==
    /\ pc = "ready"
    /\ pc' = "done"
    /\ fn' = "classify_review_flags"
    /\ ret' = classify_review_flags(args[1], args[2], args[3], args[4], args[5],
                                    args[6], args[7])
    /\ UNCHANGED <<args, track, override, calls, tables>>

NextReview == ClassifyReviewFlags

SpecReview == InitReview /\ [][NextReview]_vars

\* ------------------------------------------- analyzer.py: analyze_track

ANALYSIS_VERSION == 3

\* detect_bpm without the call of _normalize_bpm.
detect_bpm_unnormalized(tempo) ==
    IF tempo.onset_degenerate THEN { Whole(0) }
    ELSE Round1(IF tempo.best_tempo.n <= 0 THEN Whole(0) ELSE tempo.best_tempo)

\* detect_bpm, from the fused estimate on: 0.0 for a degenerate onset curve,
\* else round(_normalize_bpm(t), 1), t being best_tempo (line 419) or, with no
\* candidate in [60,210], the largest scalar estimate (line 375).
detect_bpm(tempo) ==
    IF tempo.onset_degenerate THEN { Whole(0) }
    ELSE Round1(normalize_bpm(tempo.best_tempo))

\* Both estimators invoked whatever the tags hold.
estimator_calls_eager(metadata_bpm, metadata_key) == <<"detect_bpm", "detect_key">>

\* Lines 626-627: "metadata_bpm if metadata_bpm > 0 else detect_bpm(y, sr)" and
\* "metadata_key or detect_key(y, sr)" evaluate the estimator only when the tag
\* value is not used.
estimator_calls(metadata_bpm, metadata_key) ==
    (IF metadata_bpm.n > 0 THEN <<>> ELSE <<"detect_bpm">>)
        \o (IF metadata_key # <<>> THEN <<>> ELSE <<"detect_key">>)

\* The title without the last resort of lines 641-642.
final_title_no_stem(metadata, filename_meta, name) ==
    IF Strip(metadata.title) # <<>> THEN Strip(metadata.title)
    ELSE Strip(GetOr(filename_meta.title, <<>>))

\* Lines 637-642: the title is the tag's, else the file name heuristic's, else
\* the raw stem of the file name.
final_title(metadata, filename_meta, name) ==
    LET tagged == Strip(metadata.title)
        guessed == Strip(GetOr(filename_meta.title, <<>>))
        title == IF tagged # <<>> THEN tagged ELSE guessed
    IN  IF title = <<>> THEN PathStem(name) ELSE title

\* Line 638: the artist is the tag's, else the file name heuristic's, else "".
final_artist(metadata, filename_meta) ==
    IF Strip(metadata.artist) # <<>> THEN Strip(metadata.artist)
    ELSE Strip(GetOr(filename_meta.artist, <<>>))

\* analyze_track: the runs the call can make for a file, which is given by
\* its tags (read_metadata; a missing tag is ""), what the tempo and key
\* estimators see in its signal, and its energy in hundredths.
analyze_track_run(file) ==
    LET metadata_key == parse_key_tag_to_camelot(file.metadata.key)
        musical_key == IF metadata_key # <<>> THEN metadata_key
                       ELSE detect_key(file.chroma)
        bpms(metadata_bpm) == IF metadata_bpm.n > 0 THEN { metadata_bpm }
                              ELSE detect_bpm(file.tempo)
        filename_meta == parse_filename_metadata(file.path)
    IN  UNION { { [record |-> [file_path |-> file.path,
                               file_hash |-> file_hash(file.content),
                               title |-> final_title(file.metadata, filename_meta,
                                                     file.path),
                               artist |-> final_artist(file.metadata, filename_meta),
                               bpm |-> bpm,
                               musical_key |-> musical_key,
                               energy_level |-> file.energy,
                               has_overrides |-> FALSE,
                               analysis_version |-> ANALYSIS_VERSION],
                   calls |-> estimator_calls(metadata_bpm, metadata_key)] :
                  bpm \in bpms(metadata_bpm) } :
                metadata_bpm \in parse_bpm_tag(file.metadata.bpm) }

\* The records analyze_track can return for the file.
analyze_track(file) == { run.record : run \in analyze_track_run(file) }

BpmTagSamples ==
    { <<>>, <<"?","?">>, <<"0">>, <<"3","0">>, <<"4","5">>, <<"1","2","4">>,
      <<"2","0","0">>, <<"6","0","0">>, <<"1","7","4",",","5"," ","B","P","M">> }

KeyTagSamples ==
    { <<>>, <<"?","?">>, <<"A","m">>, <<"8","A">>, <<" ","1","2","b">>,
      <<"F","#"," ","m","i","n","o","r">>, <<"A","B">> }

TempoSamples ==
    { [onset_degenerate |-> TRUE, best_tempo |-> Whole(0)] }
    \cup { [onset_degenerate |-> FALSE, best_tempo |-> t] :
            t \in { Whole(0), Whole(35), Whole(60), Rat(125, 2), Rat(699, 10),
                    Whole(70), Whole(128), Rat(1712, 10), Whole(190),
                    Rat(1901, 10), Whole(210), Whole(256), Whole(400) } }

ChromaSamples ==
    { [Peaks(Corr(0), 1, Corr(0), 1, Corr(0)) EXCEPT !.zero_variance = TRUE],
      [Peaks(Corr(0), 1, Corr(0), 1, Corr(0)) EXCEPT !.size = 0],
      Peaks(Corr(0 - 50), 22, Corr(80), 3, Corr(30)),
      Peaks(Corr(0), 7, Corr(80), 19, Corr(80)) }

Files ==
    { [path |-> <<"a",".","m","p","3">>,
       content |-> <<0, 255>>,
       metadata |-> [title |-> <<>>, artist |-> <<>>, bpm |-> b, key |-> k],
       tempo |-> t, chroma |-> c, energy |-> e] :
        b \in BpmTagSamples, k \in KeyTagSamples, t \in TempoSamples,
        c \in ChromaSamples, e \in {0, 65} }

InitAnalyze ==
    /\ pc = "ready"
    /\ fn = "none"
    /\ args \in { <<f>> : f \in Files }
    /\ ret = <<>>
    /\ EmptyLibrary
    /\ calls = <<>>

AnalyzeTrack ==
    /\ pc = "ready"
    /\ pc' = "done"
    /\ fn' = "analyze_track"
    /\ \E run \in analyze_track_run(args[1]) :
          /\ ret' = run.record
          /\ calls' = run.calls
    /\ UNCHANGED <<args, track, override, tables>>

NextAnalyze == AnalyzeTrack

SpecAnalyze == InitAnalyze /\ [][NextAnalyze]_vars

\* Files that differ in their name and in their title and artist tags.
TitledFiles ==
    { [path |-> name,
       content |-> <<0, 255>>,
       metadata |-> [title |-> title, artist |-> artist, bpm |-> b, key |-> <<"8","A">>],
       tempo |-> t,
       chroma |-> Peaks(Corr(0), 7, Corr(80), 19, Corr(80)),
       energy |-> 65] :
        name \in { <<"a",".","m","p","3">>, <<"a"," ","-"," "," ","a",".","m","p","3">>,
                   <<" ",".","m","p","3">>, <<" ","-"," ",".","m","p","3">>,
                   <<"-","a",".","m","p","3">>, <<" ","a","-">> },
        title \in { <<>>, <<" ">>, <<" ","T"," ">> },
        artist \in { <<>>, <<" ">>, <<"A"," ">> },
        b \in { <<>>, <<"1","2","4">> },
        t \in TempoSamples }

InitTitles ==
    /\ pc = "ready"
    /\ fn = "none"
    /\ args \in { <<f>> : f \in TitledFiles }
    /\ ret = <<>>
    /\ EmptyLibrary
    /\ calls = <<>>

SpecTitles == InitTitles /\ [][NextAnalyze]_vars

\* ------------------------------------------- services.py: the overrides

\* _apply_track_override writing every column of the row, a NULL as 0.0 or "".
apply_track_override_all_columns(t, row) ==
    IF row = None
    THEN IF t.has_overrides THEN [t EXCEPT !.has_overrides = FALSE] ELSE t
    ELSE LET o == row[1]
         IN  [t EXCEPT !.has_overrides = TRUE,
                       !.bpm = IF o.bpm # None THEN o.bpm[1] ELSE [n |-> 0, d |-> 1],
                       !.musical_key = IF o.musical_key # None
                                       THEN Upper(Strip(o.musical_key[1])) ELSE <<>>,
                       !.energy_level = IF o.energy_level # None
                                        THEN o.energy_level[1] ELSE 0]

\* _apply_track_override(track), override being get_track_override's row.
apply_track_override(t, row) ==
    IF row = None
    THEN IF t.has_overrides THEN [t EXCEPT !.has_overrides = FALSE] ELSE t
    ELSE LET o == row[1]
             t1 == [t EXCEPT !.has_overrides = TRUE]
             t2 == IF o.bpm # None THEN [t1 EXCEPT !.bpm = o.bpm[1]] ELSE t1
             t3 == IF o.musical_key # None /\ o.musical_key[1] # <<>>
                   THEN [t2 EXCEPT !.musical_key = Upper(Strip(o.musical_key[1]))]
                   ELSE t2
         IN  IF o.energy_level # None
             THEN [t3 EXCEPT !.energy_level = o.energy_level[1]]
             ELSE t3

\* normalized_key of save_track_override.
NormalizedKey(musical_key) ==
    IF musical_key # None /\ musical_key[1] # <<>>
    THEN Some(Upper(Strip(musical_key[1])))
    ELSE None

\* The files of the modelled library (one path, several contents).
LibraryFiles ==
    { f \in Files :
        /\ f.metadata.bpm \in { <<>>, <<"2","0","0">> }
        /\ f.metadata.key \in { <<>>, <<"A","m">> }
        /\ f.tempo.best_tempo \in { Whole(0), Whole(256) }
        /\ f.chroma = Peaks(Corr(0), 7, Corr(80), 19, Corr(80))
        /\ f.energy = 65 }

\* Arguments of save_track_override.
OverrideBpms == { None, Some(Whole(300)) }

OverrideKeys ==
    { None, Some(<<>>), Some(<<" ">>), Some(<<"8","a">>), Some(<<" ","9","b"," ">>),
      Some(<<"b","a","n","a","n","a">>) }

OverrideEnergies == { None, Some(50) }

Init ==
    /\ pc = "ready"
    /\ fn = "none"
    /\ args \in { <<f>> : f \in LibraryFiles }
    /\ ret = <<>>
    /\ EmptyLibrary
    /\ calls = <<>>

\* The analysis branch of scan_directory for the file (lines 77-81), which is
\* also the body of reanalyze_track: analyze, apply the override, upsert.
ScanFile ==
    /\ \E run \in analyze_track_run(args[1]) :
          /\ track' = Some(apply_track_override(run.record, override))
          /\ ret' = apply_track_override(run.record, override)
          /\ calls' = run.calls
    /\ pc' = "stored"
    /\ fn' = "scan_directory"
    /\ UNCHANGED <<args, override, tables>>

\* Lines 128-132 and 145-149: the file is analysed again if it is still there,
\* else the stored record is taken.
Refreshed(exists) ==
    IF exists THEN analyze_track_run(args[1])
    ELSE { [record |-> track[1], calls |-> <<>>] }

\* save_track_override(track_id, bpm, musical_key, energy_level); the audio
\* file may be gone (exists = FALSE), the stored record is then kept. args
\* keeps the file and records the arguments of the call.
SaveTrackOverride(bpm, musical_key, energy_level, exists) ==
    /\ track # None
    /\ LET row == Some([bpm |-> bpm,
                        musical_key |-> NormalizedKey(musical_key),
                        energy_level |-> energy_level])
       IN  /\ override' = row
           /\ \E refreshed \in Refreshed(exists) :
                 /\ track' = Some(apply_track_override(refreshed.record, row))
                 /\ ret' = apply_track_override(refreshed.record, row)
                 /\ calls' = refreshed.calls
    /\ pc' = "stored"
    /\ fn' = "save_track_override"
    /\ args' = <<args[1], bpm, musical_key, energy_level>>
    /\ UNCHANGED tables

\* clear_track_override(track_id)
ClearTrackOverride(exists) ==
    /\ track # None
    /\ override' = None
    /\ \E refreshed \in Refreshed(exists) :
          /\ track' = Some([refreshed.record EXCEPT !.has_overrides = FALSE])
          /\ ret' = [refreshed.record EXCEPT !.has_overrides = FALSE]
          /\ calls' = refreshed.calls
    /\ pc' = "stored"
    /\ fn' = "clear_track_override"
    /\ UNCHANGED <<args, tables>>

Next ==
    \/ ScanFile
    \/ \E b \in OverrideBpms, k \in OverrideKeys, e \in OverrideEnergies,
          exists \in BOOLEAN : SaveTrackOverride(b, k, e, exists)
    \/ \E exists \in BOOLEAN : ClearTrackOverride(exists)

Spec == Init /\ [][Next]_vars

\* ------------------------------------- services.py and cli.py: the scan

\* The rows an earlier scan can have left for the file: written by analysis
\* version v (an earlier release for v < ANALYSIS_VERSION), for the present
\* bytes of the file or for older ones, with the title of then.
StoredRows(file) ==
    UNION { { [r EXCEPT !.analysis_version = v, !.file_hash = h, !.title = t] :
                v \in 1..ANALYSIS_VERSION,
                h \in { file_hash(file.content), file_hash(<<255>>) },
                t \in { r.title, <<>> } } :
            r \in analyze_track(file) }

InitScan ==
    /\ pc = "ready"
    /\ fn = "none"
    /\ args \in { <<f>> : f \in LibraryFiles }
    /\ ret = <<>>
    /\ track \in { None } \cup { Some(r) : r \in StoredRows(args[1]) }
    /\ override \in { None, Some([bpm |-> None, musical_key |-> Some(<<"9","B">>),
                                   energy_level |-> None]) }
    /\ calls = <<>>
    /\ tables = NoSets

\* services.py line 68-73: the file is cached.
ServiceCached(existing, current_hash) ==
    /\ existing # None
    /\ existing[1].file_hash = current_hash
    /\ Strip(existing[1].title) # <<>>
    /\ existing[1].analysis_version >= ANALYSIS_VERSION

\* cli.py line 60: the file is cached.
CliCached(existing, current_hash) ==
    /\ existing # None
    /\ existing[1].file_hash = current_hash
    /\ Strip(existing[1].title) # <<>>

\* services.scan_directory, the loop body for the file.
ScanDirectory ==
    /\ fn' = "scan_directory"
    /\ pc' = "scanned"
    /\ IF ServiceCached(track, file_hash(args[1].content))
       THEN /\ ret' = "skipped"
            /\ calls' = <<>>
            /\ UNCHANGED track
       ELSE \E run \in analyze_track_run(args[1]) :
               /\ track' = Some(apply_track_override(run.record, override))
               /\ calls' = run.calls
               /\ ret' = "analyzed"
    /\ UNCHANGED <<args, override, tables>>

\* The scan command of cli.py, the loop body for the file.
CliScan ==
    /\ fn' = "scan"
    /\ pc' = "scanned"
    /\ IF CliCached(track, file_hash(args[1].content))
       THEN /\ ret' = "skipped"
            /\ calls' = <<>>
            /\ UNCHANGED track
       ELSE \E run \in analyze_track_run(args[1]) :
               /\ track' = Some(run.record)
               /\ calls' = run.calls
               /\ ret' = "analyzed"
    /\ UNCHANGED <<args, override, tables>>

NextScan == ScanDirectory \/ CliScan

SpecScan == InitScan /\ [][NextScan]_vars

\* ------------------------- services.py and cli.py: the scan of a directory

\* Most files in a scanned directory.
MaxDirFiles == 3

\* What a file of the directory is to the scan: "cached" (a row with its
\* hash, a title and, for the services, the present version is stored),
\* "ok" (analyze_track returns), "undecodable" (open() succeeds and
\* analyze_track raises), "unreadable" (open() raises in file_hash).
FileKinds == { "cached", "ok", "undecodable", "unreadable" }

\* The loop of scan_directory (services.py lines 63-83) and of the scan command
\* (cli.py lines 55-72) from file i on. file_hash is called before the try
\* statement, so its exception leaves the loop and the function; only
\* analyze_track and the upsert are inside the try.
RECURSIVE scan_loop(_, _, _)
scan_loop(files, i, counts) ==
    IF i > Len(files) THEN [counts EXCEPT !.outcome = "returned"]
    ELSE IF files[i] = "unreadable"
         THEN [counts EXCEPT !.outcome = "raised"]
    ELSE IF files[i] = "cached"
         THEN scan_loop(files, i + 1, [counts EXCEPT !.skipped = @ + 1])
    ELSE IF files[i] = "ok"
         THEN scan_loop(files, i + 1, [counts EXCEPT !.analyzed = @ + 1])
    ELSE scan_loop(files, i + 1, [counts EXCEPT !.errors = @ + 1])

\* The scan of the files found in the directory.
scan_files(files) ==
    scan_loop(files, 1, [outcome |-> "running", total |-> Len(files),
                         analyzed |-> 0, skipped |-> 0, errors |-> 0])

Directories ==
    UNION { [1..n -> FileKinds] : n \in 1..MaxDirFiles }

InitDirectory ==
    /\ pc = "ready"
    /\ fn = "none"
    /\ args \in { <<d>> : d \in Directories }
    /\ ret = <<>>
    /\ EmptyLibrary
    /\ calls = <<>>

\* services.scan_directory(directory)
ScanDirectoryFiles ==
    /\ pc = "ready"
    /\ pc' = "done"
    /\ fn' = "scan_directory"
    /\ ret' = scan_files(args[1])
    /\ UNCHANGED <<args, track, override, calls, tables>>

\* deepcrate scan <directory>
CliScanFiles ==
    /\ pc = "ready"
    /\ pc' = "done"
    /\ fn' = "scan"
    /\ ret' = scan_files(args[1])
    /\ UNCHANGED <<args, track, override, calls, tables>>

NextDirectory == ScanDirectoryFiles \/ CliScanFiles

SpecDirectory == InitDirectory /\ [][NextDirectory]_vars

\* ------------------------------- services.py: _apply_track_override alone

\* The columns of a Track that analyze_track_run leaves out, with values that
\* are not the defaults of models.py.
OtherColumns ==
    [id |-> 7, energy_confidence |-> 40, duration |-> 3000, preview_start |-> 450,
     needs_review |-> TRUE, review_notes |-> <<"L","o","w">>]

\* Tracks handed to _apply_track_override: fresh from analyze_track or read
\* back from the tracks table with has_overrides set.
ApplyTracks ==
    UNION { { [r EXCEPT !.has_overrides = h] @@ OtherColumns : h \in BOOLEAN } :
            r \in UNION { analyze_track(f) : f \in LibraryFiles } }

\* Rows of track_overrides: those save_track_override writes and one written
\* by hand with a key that is not normalised.
OverrideRows ==
    { [bpm |-> b, musical_key |-> k, energy_level |-> e] :
        b \in OverrideBpms,
        k \in { NormalizedKey(key) : key \in OverrideKeys } \cup { Some(<<" ","9","b">>) },
        e \in OverrideEnergies }

InitApply ==
    /\ pc = "ready"
    /\ fn = "none"
    /\ args \in { <<t, row>> : t \in ApplyTracks,
                               row \in { None } \cup { Some(o) : o \in OverrideRows } }
    /\ ret = <<>>
    /\ EmptyLibrary
    /\ calls = <<>>

\* _apply_track_override(track)
ApplyTrackOverride ==
    /\ pc = "ready"
    /\ pc' = "done"
    /\ fn' = "_apply_track_override"
    /\ ret' = apply_track_override(args[1], args[2])
    /\ UNCHANGED <<args, track, override, calls, tables>>

NextApply == ApplyTrackOverride

SpecApply == InitApply /\ [][NextApply]_vars

\* ------------------------- analyzer.py: detect_bpm, the double-time rule

\* Lines 409-417 without the test of the scalar estimators.
prefer_double_time_unreferenced(fusion) ==
    IF /\ RatLess(fusion.best_tempo, Whole(100))
       /\ RatLeq(Double(fusion.best_tempo), Whole(210))
       /\ 100 * fusion.doubled_score >= 90 * fusion.best_score
    THEN Double(fusion.best_tempo)
    ELSE fusion.best_tempo

\* Lines 409-417: best_tempo after the double-time heuristic. fusion holds the
\* winner of the half/double refinement (line 407) with its score, the score
\* of its double (score_candidate(doubled)) and the three scalar estimators;
\* scores are in hundredths.
prefer_double_time(fusion) ==
    IF /\ RatLess(fusion.best_tempo, Whole(100))
       /\ RatLeq(Double(fusion.best_tempo), Whole(210))
    THEN LET doubled == Double(fusion.best_tempo)
             high_reference == RatMax(fusion.beat_value,
                                      RatMax(fusion.feature_value, fusion.dynamic_value))
         IN  IF /\ RatLeq(Whole(120), high_reference)
                /\ 100 * fusion.doubled_score >= 90 * fusion.best_score
             THEN doubled
             ELSE fusion.best_tempo
    ELSE fusion.best_tempo

\* detect_bpm from the candidates on: ret.best_tempo is the tempo handed to
\* _normalize_bpm, ret.bpm the value returned. Line 298: a degenerate onset
\* curve gives 0.0; line 375: with no candidate in [60,210] the largest scalar
\* estimate (or 0.0) is normalised; line 419 otherwise.
detect_bpm_from_fusion(fusion) ==
    LET tempo == IF fusion.onset_degenerate THEN Whole(0)
                 ELSE IF ~fusion.has_candidates
                      THEN RatMax(RatMax(fusion.beat_value, fusion.feature_value),
                                  RatMax(fusion.dynamic_value, Whole(0)))
                 ELSE prefer_double_time(fusion)
    IN  { [best_tempo |-> tempo, bpm |-> bpm] :
            bpm \in IF fusion.onset_degenerate THEN { Whole(0) }
                    ELSE Round1(normalize_bpm(tempo)) }

\* Winners of the refinement: candidates lie in [60,210] (line 369) and so do
\* their half and double variants (lines 401-404).
WinnerSamples ==
    { Whole(60), Rat(699, 10), Whole(75), Whole(87), Rat(999, 10), Whole(100),
      Whole(105), Whole(128), Whole(174), Whole(210) }

\* <<best_score, doubled_score>>: the double of a winner below 100 is one of
\* the variants the winner was chosen from, so it never scores more.
ScoreSamples ==
    { <<b, d>> \in { 0, 100, 200 } \X { 0, 89, 90, 100, 179, 180, 200 } : d <= b }

\* beat_value, feature_value, dynamic_value when they give candidates.
EstimatorSamples == { Whole(0), Whole(87), Rat(1199, 10), Whole(120), Whole(174) }

\* Scalar estimates none of whose x0.5, x1, x2 lies in [60,210].
OutOfRangeEstimates == { Whole(0), Whole(20), Whole(500) }

Fusions ==
    { [onset_degenerate |-> FALSE, has_candidates |-> TRUE, best_tempo |-> w,
       best_score |-> s[1], doubled_score |-> s[2],
       beat_value |-> b, feature_value |-> f, dynamic_value |-> d] :
        w \in WinnerSamples, s \in ScoreSamples,
        b \in EstimatorSamples, f \in EstimatorSamples, d \in EstimatorSamples }
    \cup
    { [onset_degenerate |-> g, has_candidates |-> FALSE, best_tempo |-> Whole(0),
       best_score |-> 0, doubled_score |-> 0,
       beat_value |-> b, feature_value |-> f, dynamic_value |-> d] :
        g \in BOOLEAN,
        b \in OutOfRangeEstimates, f \in OutOfRangeEstimates,
        d \in OutOfRangeEstimates }

InitFusion ==
    /\ pc = "ready"
    /\ fn = "none"
    /\ args \in { <<fusion>> : fusion \in Fusions }
    /\ ret = <<>>
    /\ EmptyLibrary
    /\ calls = <<>>

DetectBpmFromFusion ==
    /\ pc = "ready"
    /\ pc' = "done"
    /\ fn' = "detect_bpm"
    /\ ret' \in detect_bpm_from_fusion(args[1])
    /\ UNCHANGED <<args, track, override, calls, tables>>

NextFusion == DetectBpmFromFusion

SpecFusion == InitFusion /\ [][NextFusion]_vars

\* ------------------------------------------ db.py: delete_tracks_by_ids

\* Ids of the rows of the tracks table and the two sets of the modelled
\* database.
TrackIds == { 1, 2 }

SetIds == { 1, 2 }

\* file_path of the track with the id (the column is UNIQUE).
PathOf(id) == <<"p">> \o NatToStr(id)

\* unique_ids, line 284: the ids above 0 without duplicates.
unique_ids(track_ids) ==
    { track_ids[i] : i \in { j \in 1..Len(track_ids) : track_ids[j] > 0 } }

\* delete_tracks_by_ids without the DELETE FROM track_overrides of lines
\* 338-343.
delete_tracks_by_ids_keeping_overrides(db, track_ids) ==
    LET existing_ids == { t.id : t \in { r \in db.tracks : r.id \in unique_ids(track_ids) } }
        affected_set_ids == { r.set_id : r \in { s \in db.set_tracks : s.track_id \in existing_ids } }
    IN  [db |-> [db EXCEPT !.tracks = { t \in @ : t.id \notin existing_ids },
                           !.set_tracks = { r \in @ : r.track_id \notin existing_ids },
                           !.gaps = { g \in @ : g.set_id \notin affected_set_ids }],
         requested |-> Cardinality(unique_ids(track_ids)),
         deleted |-> Cardinality(existing_ids),
         missing |-> Cardinality(unique_ids(track_ids)) - Cardinality(existing_ids),
         removed_from_sets |-> Cardinality({ s \in db.set_tracks : s.track_id \in existing_ids }),
         cleared_gap_sets |-> Cardinality(affected_set_ids)]

\* delete_tracks_by_ids(track_ids) on the database db: the database after the
\* commit and the counts returned. Lines 285-292: nothing requested; 305-312:
\* none of the requested tracks exists; 314-360: the set_tracks rows of the
\* existing tracks, every gap of the sets these rows were in, the overrides of
\* their file paths and the tracks themselves are deleted.
delete_tracks_by_ids(db, track_ids) ==
    LET existing_rows == { t \in db.tracks : t.id \in unique_ids(track_ids) }
        existing_ids == { t.id : t \in existing_rows }
        file_paths == { t.file_path : t \in existing_rows }
        missing == Cardinality(unique_ids(track_ids)) - Cardinality(existing_ids)
        removed == { r \in db.set_tracks : r.track_id \in existing_ids }
        affected_set_ids == { r.set_id : r \in removed }
    IN  IF unique_ids(track_ids) = {}
        THEN [db |-> db, requested |-> 0, deleted |-> 0, missing |-> 0,
              removed_from_sets |-> 0, cleared_gap_sets |-> 0]
        ELSE IF existing_ids = {}
        THEN [db |-> db, requested |-> Cardinality(unique_ids(track_ids)),
              deleted |-> 0, missing |-> missing,
              removed_from_sets |-> 0, cleared_gap_sets |-> 0]
        ELSE [db |-> [tracks |-> db.tracks \ existing_rows,
                      set_tracks |-> db.set_tracks \ removed,
                      gaps |-> { g \in db.gaps : g.set_id \notin affected_set_ids },
                      overrides |-> { o \in db.overrides : o \notin file_paths }],
              requested |-> Cardinality(unique_ids(track_ids)),
              deleted |-> Cardinality(existing_rows),
              missing |-> missing,
              removed_from_sets |-> Cardinality(removed),
              cleared_gap_sets |-> Cardinality(affected_set_ids)]

\* services.delete_tracks: the ids above 0 in order of first occurrence.
RECURSIVE normalized_ids(_, _)
normalized_ids(track_ids, normalized) ==
    IF track_ids = <<>> THEN normalized
    ELSE normalized_ids(Tail(track_ids),
            IF Head(track_ids) > 0 /\ \A i \in 1..Len(normalized) : normalized[i] # Head(track_ids)
            THEN Append(normalized, Head(track_ids))
            ELSE normalized)

\* services.delete_tracks(track_ids)
delete_tracks(db, track_ids) ==
    IF normalized_ids(track_ids, <<>>) = <<>>
    THEN [db |-> db, requested |-> 0, deleted |-> 0, missing |-> 0,
          removed_from_sets |-> 0, cleared_gap_sets |-> 0]
    ELSE delete_tracks_by_ids(db, normalized_ids(track_ids, <<>>))

\* The slots (set_id, position) of set_tracks, its primary key.
SetSlots == { <<1, 1>>, <<1, 2>>, <<2, 1>> }

\* Databases: any of the tracks, any filling of the slots with a track id (the
\* foreign keys are not enforced, the connection never sets PRAGMA
\* foreign_keys), gaps stored for any of the sets, overrides for any path.
Databases ==
    { [tracks |-> { [id |-> id, file_path |-> PathOf(id)] : id \in present },
       set_tracks |-> { [set_id |-> slot[1], position |-> slot[2], track_id |-> filling[slot]] :
                          slot \in { s \in SetSlots : filling[s] # 0 } },
       gaps |-> { [set_id |-> s, position |-> 1] : s \in gapped },
       overrides |-> { PathOf(id) : id \in overridden }] :
        present \in SUBSET TrackIds, filling \in [SetSlots -> { 0 } \cup TrackIds],
        gapped \in SUBSET SetIds, overridden \in SUBSET TrackIds }

\* Requests: up to two ids, also 0, an id twice and an id of no track.
IdLists ==
    UNION { [1..n -> 0..3] : n \in 0..2 }

InitDelete ==
    /\ pc = "ready"
    /\ fn = "none"
    /\ args \in { <<db, ids>> : db \in Databases, ids \in IdLists }
    /\ ret = <<>>
    /\ EmptyLibrary
    /\ calls = <<>>

DeleteTracksByIds ==
    /\ pc = "ready"
    /\ pc' = "done"
    /\ fn' = "delete_tracks_by_ids"
    /\ ret' = delete_tracks_by_ids(args[1], args[2])
    /\ UNCHANGED <<args, track, override, calls, tables>>

DeleteTracks ==
    /\ pc = "ready"
    /\ pc' = "done"
    /\ fn' = "delete_tracks"
    /\ ret' = delete_tracks(args[1], args[2])
    /\ UNCHANGED <<args, track, override, calls, tables>>

NextDelete == DeleteTracksByIds \/ DeleteTracks

SpecDelete == InitDelete /\ [][NextDelete]_vars

\* ------------------------------------------------- planning/scoring.py

\* abs(x) of a fraction.
RatAbs(x) == [n |-> Abs(x.n), d |-> x.d]

\* bpm_compatibility_score, in hundredths.
bpm_compatibility_score(bpm_a, bpm_b) ==
    IF bpm_a.n <= 0 \/ bpm_b.n <= 0 THEN 50
    ELSE LET plain == RatAbs(RatSub(bpm_a, bpm_b))
             half_diff == RatAbs(RatSub(bpm_a, Double(bpm_b)))
             double_diff == RatAbs(RatSub(Double(bpm_a), bpm_b))
             diff == RatMin(plain, RatMin(half_diff, double_diff))
         IN  IF RatLeq(diff, Whole(1)) THEN 100
             ELSE IF RatLeq(diff, Whole(3)) THEN 90
             ELSE IF RatLeq(diff, Whole(6)) THEN 70
             ELSE IF RatLeq(diff, Whole(10)) THEN 50
             ELSE IF RatLeq(diff, Whole(15)) THEN 30
             ELSE 10

\* energy_flow_score, in hundredths, of energies in hundredths.
energy_flow_score(energy_a, energy_b, expected_direction) ==
    LET diff == energy_b - energy_a
        base == IF Abs(diff) > 50 THEN 20
                ELSE IF Abs(diff) > 30 THEN 50
                ELSE IF Abs(diff) > 15 THEN 70
                ELSE 90
    IN  IF expected_direction = "up" /\ diff > 0 THEN Min(base + 10, 100)
        ELSE IF expected_direction = "up" /\ diff < 0 - 10 THEN Max(base - 20, 0)
        ELSE IF expected_direction = "down" /\ diff < 0 THEN Min(base + 10, 100)
        ELSE IF expected_direction = "down" /\ diff > 10 THEN Max(base - 20, 0)
        ELSE base

\* transition_score, in hundredths: round(0.4 key + 0.35 bpm + 0.25 energy, 2).
\* The weighted sum is in ten-thousandths; when it ends in 50 the float sum
\* lies just above or just below the tie and round goes either way.
transition_score(track_a, track_b, expected_direction) ==
    LET sum == 40 * (10 * key_compatibility_score(track_a.musical_key, track_b.musical_key))
               + 35 * bpm_compatibility_score(track_a.bpm, track_b.bpm)
               + 25 * energy_flow_score(track_a.energy_level, track_b.energy_level,
                                        expected_direction)
    IN  IF sum % 100 < 50 THEN { sum \div 100 }
        ELSE IF sum % 100 > 50 THEN { sum \div 100 + 1 }
        ELSE { sum \div 100, sum \div 100 + 1 }

\* ------------------------------ planning/planner.py: _order_tracks_for_flow

\* Lengths of the lists handed to _order_tracks_for_flow (up to 2 tracks are
\* returned as they are, line 470).
OrderedLengths == 0..4

\* _bpm_matches_range
bpm_matches_range(bpm, bpm_range) ==
    /\ bpm.n > 0
    /\ \E candidate \in { bpm, Double(bpm), Halve(bpm) } :
          RatLeq(bpm_range[1], candidate) /\ RatLeq(candidate, bpm_range[2])

\* _expected_energy_direction; hints says which of the hint lists the
\* description matches (_description_has_peak_arc, _description_has_cooldown).
\* pct = position / max(total - 1, 1) is compared as a fraction.
expected_energy_direction(position, total, hints) ==
    IF total <= 2 THEN "any"
    ELSE LET pct == Rat(position, Max(total - 1, 1))
         IN  IF hints.peak /\ hints.cooldown
             THEN IF RatLess(pct, Rat(65, 100)) THEN "up" ELSE "down"
             ELSE IF hints.peak
             THEN IF RatLess(pct, Rat(75, 100)) THEN "up" ELSE "any"
             ELSE IF hints.cooldown
             THEN IF RatLess(Rat(50, 100), pct) THEN "down" ELSE "any"
             ELSE "any"

\* _seed_track_for_ordering, as the set of tracks it can return: the shortlist
\* holds every track of a list of up to 8, in the order of
\* _context_relevance_score, and min() takes the first of the tracks with the
\* least key in that order, which can be any of them.
seed_track_for_ordering(tracks, hints) ==
    LET key(t) == IF hints.low_start THEN t.energy_level
                  ELSE Abs(t.energy_level - 45)
    IN  { tracks[i] : i \in { j \in 1..Len(tracks) :
                                \A k \in 1..Len(tracks) : key(tracks[j]) <= key(tracks[k]) } }

\* [track for track in tracks if track.id > id]
tracks_above(tracks, id) ==
    SelectSeq(tracks, LAMBDA t : t.id > id)

\* [track for track in tracks if track.id != id]
tracks_without(tracks, id) ==
    SelectSeq(tracks, LAMBDA t : t.id # id)

\* candidate_score (lines 485-491), in hundredths, as the set of its values.
candidate_score(previous, candidate, direction, profiles) ==
    { score
        + (IF \E i \in 1..Len(profiles) : bpm_matches_range(candidate.bpm, profiles[i])
           THEN 12 ELSE 0)
        + (IF candidate.artist # <<>> /\ previous.artist # <<>>
              /\ candidate.artist # previous.artist
           THEN 3 ELSE 0) :
      score \in transition_score(previous, candidate, direction) }

\* max(remaining, key=candidate_score), as the set of tracks it can return: a
\* track one of whose scores is not below some score of every other track
\* (equal scores go to the first in the list, and the float sums decide which
\* scores are equal).
next_tracks(previous, remaining, direction, profiles) ==
    { remaining[i] : i \in { j \in 1..Len(remaining) :
        \E best \in candidate_score(previous, remaining[j], direction, profiles) :
            \A k \in 1..Len(remaining) :
                \E other \in candidate_score(previous, remaining[k], direction, profiles) :
                    other <= best } }

\* The while loop of lines 480-495: the lists it can end with.
RECURSIVE order_loop(_, _, _, _, _)
order_loop(ordered, remaining, total, hints, profiles) ==
    IF remaining = <<>> THEN { ordered }
    ELSE UNION { order_loop(Append(ordered, next_track),
                            tracks_without(remaining, next_track.id),
                            total, hints, profiles) :
                 next_track \in next_tracks(ordered[Len(ordered)], remaining,
                                            expected_energy_direction(Len(ordered), total, hints),
                                            profiles) }

\* _order_tracks_for_flow(tracks, description, profiles): the lists it can
\* return.
order_tracks_for_flow(tracks, hints, profiles) ==
    IF Len(tracks) <= 2 THEN { tracks }
    ELSE UNION { order_loop(<<seed>>, tracks_without(tracks, seed.id),
                            Len(tracks), hints, profiles) :
                 seed \in seed_track_for_ordering(tracks, hints) }

\* The tracks of the planner's test, with a half-time and a house track, a
\* track without artist, and a second row carrying the id 1.
TrackPool ==
    { [id |-> 1, bpm |-> Whole(170), musical_key |-> <<"8","A">>, energy_level |-> 30,
       artist |-> <<"A">>],
      [id |-> 2, bpm |-> Whole(171), musical_key |-> <<"9","A">>, energy_level |-> 42,
       artist |-> <<"B">>],
      [id |-> 3, bpm |-> Whole(87), musical_key |-> <<"1","0","A">>, energy_level |-> 56,
       artist |-> <<"B">>],
      [id |-> 4, bpm |-> Whole(128), musical_key |-> <<"3","B">>, energy_level |-> 68,
       artist |-> <<>>],
      [id |-> 5, bpm |-> Whole(174), musical_key |-> <<"1","2","A">>, energy_level |-> 78,
       artist |-> <<"E">>],
      [id |-> 1, bpm |-> Whole(0), musical_key |-> <<>>, energy_level |-> 30,
       artist |-> <<"A">>] }

\* Lists of different rows of the pool.
TrackLists ==
    UNION { { list \in [1..n -> TrackPool] :
                \A i \in 1..n, j \in 1..n : i # j => list[i] # list[j] } :
            n \in OrderedLengths }

\* What the description matches: START_LOW_HINTS, PEAK_HINTS, COOLDOWN_HINTS.
DescriptionHints ==
    [low_start : BOOLEAN, peak : BOOLEAN, cooldown : BOOLEAN]

\* The bpm ranges of the inferred genre profiles: none, or drum and bass.
ProfileLists == { <<>>, << <<Whole(170), Whole(175)>> >> }

InitOrder ==
    /\ pc = "ready"
    /\ fn = "none"
    /\ args \in { <<tracks, hints, profiles>> :
                    tracks \in TrackLists, hints \in DescriptionHints,
                    profiles \in ProfileLists }
    /\ ret = <<>>
    /\ EmptyLibrary
    /\ calls = <<>>

OrderTracksForFlow ==
    /\ pc = "ready"
    /\ pc' = "done"
    /\ fn' = "_order_tracks_for_flow"
    /\ ret' \in order_tracks_for_flow(args[1], args[2], args[3])
    /\ UNCHANGED <<args, track, override, calls, tables>>

NextOrder == OrderTracksForFlow

SpecOrder == InitOrder /\ [][NextOrder]_vars

\* ------------------------------------------ planning/gaps.py: analyze_gaps

\* Most tracks given to one build of the set.
MaxSetTracks == 3

\* Transitions below this score (0.5, in hundredths) are flagged.
WEAK_THRESHOLD == 50

\* ord(c) - ord("0") for the characters of a Camelot code.
CharOrd(c) == IF IsDigit(c) THEN DigitVal(c) ELSE IF c = "A" THEN 17 ELSE 18

\* a < b for str
RECURSIVE TextLess(_, _)
TextLess(a, b) ==
    IF b = <<>> THEN FALSE
    ELSE IF a = <<>> THEN TRUE
    ELSE IF Head(a) = Head(b) THEN TextLess(Tail(a), Tail(b))
    ELSE CharOrd(Head(a)) < CharOrd(Head(b))

\* Lines 51-54: sorted(common_keys)[0] if common_keys else the key of the
\* track left.
suggested_key(from_track, to_track) ==
    LET keys_a == { compatible_keys(from_track.musical_key)[i] :
                      i \in 1..Len(compatible_keys(from_track.musical_key)) }
        keys_b == { compatible_keys(to_track.musical_key)[i] :
                      i \in 1..Len(compatible_keys(to_track.musical_key)) }
        common_keys == keys_a \cap keys_b
    IN  IF common_keys # {}
        THEN CHOOSE k \in common_keys : \A other \in common_keys \ { k } : TextLess(k, other)
        ELSE from_track.musical_key

\* get_set_tracks: the rows of the set, which the table holds by position.
get_set_tracks(t) == t.set_tracks

\* The Track of the row of the tracks table with the id; the table holds the
\* attributes by id.
TrackRow(id, kind) ==
    [id |-> id, bpm |-> kind.bpm, musical_key |-> kind.musical_key,
     energy_level |-> kind.energy_level]

\* get_track_by_id: <<>> or <<Track>>.
get_track_by_id(t, id) ==
    IF id \in DOMAIN t.tracks /\ t.tracks[id] # None
    THEN Some(TrackRow(id, t.tracks[id][1]))
    ELSE None

\* Lines 16-41: the lists of weak transitions the loop can build from the
\* pair (i, i + 1) on; a pair with a missing track is passed over.
RECURSIVE weak_transitions_from(_, _)
weak_transitions_from(t, i) ==
    IF i >= Len(get_set_tracks(t)) THEN { <<>> }
    ELSE LET track_a == get_track_by_id(t, get_set_tracks(t)[i].track_id)
             track_b == get_track_by_id(t, get_set_tracks(t)[i + 1].track_id)
             rest == weak_transitions_from(t, i + 1)
         IN  IF track_a = None \/ track_b = None THEN rest
             ELSE UNION { IF score < WEAK_THRESHOLD
                          THEN { <<[from_track |-> track_a[1], to_track |-> track_b[1],
                                    score |-> score]>> \o later : later \in rest }
                          ELSE rest :
                          score \in transition_score(track_a[1], track_b[1], "any") }

\* Lines 45-63: the gaps built for the weak transitions; position is
\* enumerate's i + 1. The rounded means are taken per transition.
RECURSIVE gaps_for(_, _)
gaps_for(weak_transitions, i) ==
    IF i > Len(weak_transitions) THEN { <<>> }
    ELSE LET trans == weak_transitions[i]
             avg_bpm == Rat(trans.from_track.bpm.n * trans.to_track.bpm.d
                              + trans.to_track.bpm.n * trans.from_track.bpm.d,
                            2 * trans.from_track.bpm.d * trans.to_track.bpm.d)
             avg_energy == Rat(trans.from_track.energy_level + trans.to_track.energy_level,
                               200)
         IN  { <<[position |-> i,
                  suggested_bpm |-> bpm,
                  suggested_key |-> suggested_key(trans.from_track, trans.to_track),
                  suggested_energy |-> energy,
                  suggested_vibe |-> "bridge track"]>> \o later :
               bpm \in Round1(avg_bpm), energy \in Round2(avg_energy),
               later \in gaps_for(weak_transitions, i + 1) }

\* analyze_gaps(set_id) on the tables t: what it can return and the tables it
\* leaves. Line 13: fewer than two rows return [] at once; line 65: set_gaps
\* (DELETE of the set's gaps, then INSERT) is called only with a non-empty
\* list.
analyze_gaps(t) ==
    IF Len(get_set_tracks(t)) < 2 THEN { [weak |-> <<>>, tables |-> t] }
    ELSE UNION { { [weak |-> weak_transitions,
                    tables |-> IF gaps # <<>> THEN [t EXCEPT !.gaps = gaps] ELSE t] :
                   gaps \in gaps_for(weak_transitions, 1) } :
                 weak_transitions \in weak_transitions_from(t, 1) }

\* Two kinds of track: they mix well with their like and badly with each
\* other.
TrackKinds ==
    { [bpm |-> Whole(128), musical_key |-> <<"8","A">>, energy_level |-> 50],
      [bpm |-> Whole(150), musical_key |-> <<"1","0","A">>, energy_level |-> 100] }

InitGaps ==
    /\ pc = "ready"
    /\ fn = "none"
    /\ args = <<>>
    /\ ret = <<>>
    /\ track = None
    /\ override = None
    /\ calls = <<>>
    /\ tables \in { [tracks |-> rows, set_tracks |-> <<>>, gaps |-> <<>>] :
                       rows \in [1..MaxSetTracks ->
                                   { None } \cup { Some(k) : k \in TrackKinds }] }

\* The rows mac_bridge builds for the ids from index idx on (lines 234-253):
\* an id without track is passed over, position is the index in the request.
RECURSIVE set_rows(_, _, _)
set_rows(t, track_ids, idx) ==
    IF idx > Len(track_ids) THEN <<>>
    ELSE IF get_track_by_id(t, track_ids[idx]) = None THEN set_rows(t, track_ids, idx + 1)
    ELSE <<[track_id |-> track_ids[idx], position |-> idx]>> \o set_rows(t, track_ids, idx + 1)

\* The set is saved again (mac_bridge lines 227-255, planner.py lines 591-643):
\* delete_set removes the rows and the gaps of the set of that name,
\* create_set and set_set_tracks write the new one.
SaveSet(track_ids) ==
    /\ tables' = [tables EXCEPT !.set_tracks = set_rows(tables, track_ids, 1),
                                !.gaps = <<>>]
    /\ pc' = "stored"
    /\ fn' = "save_set"
    /\ ret' = <<>>
    /\ UNCHANGED <<args, track, override, calls>>

\* upsert_track of a track whose attributes changed (save_track_override,
\* clear_track_override, reanalyze_track or a scan of the changed file).
UpsertTrack(id, kind) ==
    /\ tables.tracks[id] # None
    /\ tables.tracks[id] # Some(kind)
    /\ tables' = [tables EXCEPT !.tracks[id] = Some(kind)]
    /\ pc' = "stored"
    /\ fn' = "upsert_track"
    /\ ret' = <<>>
    /\ UNCHANGED <<args, track, override, calls>>

\* delete_tracks_by_ids([id]) on these tables (db.py lines 314-349).
DeleteSetTrack(id) ==
    /\ tables.tracks[id] # None
    /\ tables' = [tracks |-> [tables.tracks EXCEPT ![id] = None],
                  set_tracks |-> SelectSeq(tables.set_tracks, LAMBDA r : r.track_id # id),
                  gaps |-> IF \E i \in 1..Len(tables.set_tracks) :
                                  tables.set_tracks[i].track_id = id
                           THEN <<>> ELSE tables.gaps]
    /\ pc' = "stored"
    /\ fn' = "delete_tracks"
    /\ ret' = <<>>
    /\ UNCHANGED <<args, track, override, calls>>

\* analyze_gaps(set_id)
AnalyzeGaps ==
    /\ \E result \in analyze_gaps(tables) :
          /\ ret' = result.weak
          /\ tables' = result.tables
    /\ pc' = "done"
    /\ fn' = "analyze_gaps"
    /\ UNCHANGED <<args, track, override, calls>>

NextGaps ==
    \/ \E n \in 0..MaxSetTracks : \E track_ids \in [1..n -> 1..MaxSetTracks] :
          SaveSet(track_ids)
    \/ \E id \in 1..MaxSetTracks, kind \in TrackKinds : UpsertTrack(id, kind)
    \/ \E id \in 1..MaxSetTracks : DeleteSetTrack(id)
    \/ AnalyzeGaps

SpecGaps == InitGaps /\ [][NextGaps]_vars

\* ------------------------ services.py and cli.py: the library operations

\* reanalyze_track(track_id): the file must still exist (line 100-101 raises
\* otherwise and nothing is written).
ReanalyzeTrack ==
    /\ track # None
    /\ \E run \in analyze_track_run(args[1]) :
          /\ track' = Some(apply_track_override(run.record, override))
          /\ ret' = apply_track_override(run.record, override)
          /\ calls' = run.calls
    /\ pc' = "stored"
    /\ fn' = "reanalyze_track"
    /\ UNCHANGED <<args, override, tables>>

\* delete_tracks([track_id]): the track and the override of its file path are
\* deleted (db.py lines 338-349).
DeleteLibraryTrack ==
    /\ track # None
    /\ track' = None
    /\ override' = None
    /\ ret' = [requested |-> 1, deleted |-> 1, missing |-> 0]
    /\ calls' = <<>>
    /\ pc' = "stored"
    /\ fn' = "delete_tracks"
    /\ UNCHANGED <<args, tables>>

\* The audio file is replaced by other bytes under the same path.
FileChanged ==
    /\ args[1].content # <<255>>
    /\ args' = [args EXCEPT ![1].content = <<255>>]
    /\ pc' = "ready"
    /\ fn' = "none"
    /\ UNCHANGED <<ret, track, override, calls, tables>>

\* The library starts empty, with an untagged file in the directory.
InitLibrary ==
    /\ pc = "ready"
    /\ fn = "none"
    /\ args \in { <<f>> : f \in { g \in LibraryFiles :
                                      g.metadata.bpm = <<>> /\ g.metadata.key = <<>> } }
    /\ ret = <<>>
    /\ EmptyLibrary
    /\ calls = <<>>

NextLibrary ==
    \/ ScanDirectory
    \/ CliScan
    \/ ReanalyzeTrack
    \/ \E b \in OverrideBpms, k \in { None, Some(<<"8","a">>) }, exists \in BOOLEAN :
          SaveTrackOverride(b, k, None, exists)
    \/ \E exists \in BOOLEAN : ClearTrackOverride(exists)
    \/ DeleteLibraryTrack
    \/ FileChanged

SpecLibrary == InitLibrary /\ [][NextLibrary]_vars

\* ------------------------------------------------ claims about the wheel

\* The wheel position of the code a text denotes, by parse_camelot.
UpOnWheel(n) == IF n = 12 THEN 1 ELSE n + 1

DownOnWheel(n) == IF n = 1 THEN 12 ELSE n - 1

OtherLetter(l) == IF l = "A" THEN "B" ELSE "A"

\* What C1 says the score of two texts is, in tenths.
ClaimedScore(a, b) ==
    LET pa == parse_camelot(a)
        pb == parse_camelot(b)
        d == Abs(pa.number - pb.number)
    IN  IF a = <<>> \/ b = <<>> \/ ~pa.ok \/ ~pb.ok THEN 5
        ELSE IF pa = pb THEN 10
        ELSE IF InSeq(FormatCamelot(pb.number, pb.letter), compatible_keys(a)) THEN 8
        ELSE IF Min(d, 12 - d) = 2 /\ pa.letter = pb.letter THEN 5
        ELSE 2

\* C1 (as claimed): for any two texts, key_compatibility_score is 1.0 when both
\* parse to the same key, 0.8 when b denotes one of compatible_keys(a), 0.5 at
\* wheel distance 2 with the same letter, 0.2 otherwise, and 0.5 when either is
\* empty or does not parse: whatever the case and the blanks around the codes.
C1_ScoreAsClaimed ==
    (pc = "done" /\ fn = "key_compatibility_score")
        => ret = ClaimedScore(args[1], args[2])

\* C2: for every valid code n+L compatible_keys holds n+L, both wheel
\* neighbours at the same letter (12 wraps to 1, 1 wraps to 12) and n with the
\* other letter; every element is a valid code; an unparsable text gives [].
C2_CompatibleKeys ==
    (pc = "done" /\ fn = "compatible_keys") =>
        /\ \A n \in 1..12, l \in {"A", "B"} :
              args[1] = FormatCamelot(n, l) =>
                 /\ InSeq(FormatCamelot(n, l), ret)
                 /\ InSeq(FormatCamelot(UpOnWheel(n), l), ret)
                 /\ InSeq(FormatCamelot(DownOnWheel(n), l), ret)
                 /\ InSeq(FormatCamelot(n, OtherLetter(l)), ret)
        /\ \A i \in 1..Len(ret) : ret[i] \in Codes
        /\ (~parse_camelot(args[1]).ok => ret = <<>>)

\* C2 witness: the wrap-around at 12 has been computed.
C2_Witness ==
    /\ pc = "done" /\ fn = "compatible_keys"
    /\ args[1] = <<"1","2","A">>
    /\ InSeq(<<"1","A">>, ret)
    /\ InSeq(<<"1","1","A">>, ret)

\* C3 (as claimed): compatible_keys returns five results for every valid code.
C3_FiveResults ==
    (pc = "done" /\ fn = "compatible_keys" /\ args[1] \in Codes) => Len(ret) = 5

\* C3 (amended): compatible_keys returns four results for every valid code,
\* the first being the code itself, and no two of them equal.
C3_FourResults ==
    (pc = "done" /\ fn = "compatible_keys" /\ args[1] \in Codes) =>
        /\ Len(ret) = 4
        /\ ret[1] = args[1]
        /\ \A i, j \in 1..Len(ret) : i # j => ret[i] # ret[j]

\* C3 witness: a valid code whose four results have been returned.
C3_Witness ==
    /\ pc = "done" /\ fn = "compatible_keys"
    /\ args[1] = <<"8","A">>
    /\ ret = << <<"8","A">>, <<"9","A">>, <<"7","A">>, <<"8","B">> >>

\* The key names that are not the first-listed spelling of their code.
AliasNames ==
    { KeyName(<<"G","b">>, MAJOR), KeyName(<<"C","#">>, MAJOR),
      KeyName(<<"G","b">>, MINOR), KeyName(<<"C","#">>, MINOR) }

\* C10 (as claimed): the table is a bijection between its key names and the 24
\* codes: every code has a key name, and name -> code -> name and
\* code -> name -> code both return the starting value.
C10_Bijection ==
    /\ \A c \in Codes : camelot_to_key_name(c) \in KeyNames
    /\ (pc = "done" /\ fn = "name_code_name" /\ args[1] \in KeyNames)
          => ret = args[1]
    /\ (pc = "done" /\ fn = "code_name_code" /\ args[1] \in Codes)
          => ret = args[1]

\* C10 (amended): the table maps 28 key names onto the 24 codes; every code has
\* a key name; code -> name -> code returns the starting code; name -> code ->
\* name returns a key name of the same code, which is the starting name except
\* for the four alias spellings (Gb major, C# major, Gb minor, C# minor).
C10_Retraction ==
    /\ Cardinality(KeyNames) = 28
    /\ \A c \in Codes : camelot_to_key_name(c) \in KeyNames
    /\ \A k \in KeyNames : key_name_to_camelot(k) \in Codes
    /\ (pc = "done" /\ fn = "code_name_code" /\ args[1] \in Codes)
          => ret = args[1]
    /\ (pc = "done" /\ fn = "name_code_name" /\ args[1] \in KeyNames) =>
          /\ ret \in KeyNames
          /\ key_name_to_camelot(ret) = key_name_to_camelot(args[1])
          /\ (ret = args[1]) <=> (args[1] \notin AliasNames)

\* C10 witness: an alias spelling has gone through name -> code -> name.
C10_Witness ==
    /\ pc = "done" /\ fn = "name_code_name"
    /\ args[1] = KeyName(<<"G","b">>, MAJOR)
    /\ ret = KeyName(<<"F","#">>, MAJOR)

\* ------------------------------------------------- claims about the tempo

\* x * 2^k = y for some whole k, up or down.
OctaveOf(x, y) ==
    \E k \in 0..12 :
        \/ y.n * x.d = x.n * y.d * Pow(2, k)
        \/ y.n * x.d * Pow(2, k) = x.n * y.d

InBand(x, low, high) == RatLeq(Whole(low), x) /\ RatLeq(x, Whole(high))

\* C5: _normalize_bpm returns 0 for bpm <= 0; for a positive bpm it returns
\* bpm * 2^k within [70,190]: unchanged when already there, doubled just until
\* it reaches 70 when below, halved just until it reaches 190 when above.
C5_NormalizeBpm ==
    (pc = "done" /\ fn = "_normalize_bpm") =>
        LET raw == args[1]
        IN  /\ raw.n <= 0 => ret = Whole(0)
            /\ raw.n > 0 =>
                /\ InBand(ret, 70, 190)
                /\ OctaveOf(raw, ret)
                /\ InBand(raw, 70, 190) => ret = raw
                /\ RatLess(raw, Whole(70)) =>
                      RatLess(raw, ret) /\ RatLess(Halve(ret), Whole(70))
                /\ RatLess(Whole(190), raw) =>
                      RatLess(ret, raw) /\ RatLess(Whole(190), Double(ret))

\* C5 witness: a half-time tempo has been doubled into the band.
C5_Witness ==
    /\ pc = "done" /\ fn = "_normalize_bpm"
    /\ args[1] = Whole(62)
    /\ ret = Whole(124)

\* |x - y| <= 1/20
WithinHalfTenth(x, y) == 20 * Abs(x.n * y.d - y.n * x.d) <= x.d * y.d

\* C8: parse_bpm_tag takes the first numeric token of the text (comma or point
\* as decimal separator), halves it while it is above 260 and returns it
\* rounded to one decimal when it lies in [40,260], else 0.0; a text with no
\* number and a token of value 0 give 0.0. The result is 0.0 or in [40,260].
C8_ParseBpmTag ==
    (pc = "done" /\ fn = "parse_bpm_tag") =>
        LET value == args[1]
            m == SearchNumber(value)
            v == TokenValue(m)
        IN  /\ ret = Whole(0) \/ InBand(ret, 40, 260)
            /\ (~m.ok \/ v.n <= 0) => ret = Whole(0)
            /\ (m.ok /\ v.n > 0) =>
                 \E k \in 0..(4 * Len(value)) :
                    LET h == Rat(v.n, v.d * Pow(2, k))
                    IN  /\ RatLeq(h, Whole(260))
                        /\ k > 0 => RatLess(Whole(260), Double(h))
                        /\ RatLess(h, Whole(40)) => ret = Whole(0)
                        /\ ~RatLess(h, Whole(40)) =>
                              /\ 10 % ret.d = 0
                              /\ WithinHalfTenth(ret, h)

\* C8 witness: a tag above 260 has been halved twice into the range.
C8_Witness ==
    /\ pc = "done" /\ fn = "parse_bpm_tag"
    /\ args[1] = <<"6","0","0">>
    /\ ret = Whole(150)

\* ---------------------------------------------- claims about the key tags

\* Semitones above C of a note letter.
LetterPitch(l) ==
    CASE UpperChar(l) = "C" -> 0
      [] UpperChar(l) = "D" -> 2
      [] UpperChar(l) = "E" -> 4
      [] UpperChar(l) = "F" -> 5
      [] UpperChar(l) = "G" -> 7
      [] UpperChar(l) = "A" -> 9
      [] UpperChar(l) = "B" -> 11

\* Pitch class of a note letter with its accidental: a sharp raises it and a
\* flat, written b, B or with the flat sign, lowers it by a semitone.
PitchClass(l, a) ==
    (LetterPitch(l)
        + (IF a \in { <<"#">>, <<SHARP_SIGN>> } THEN 1
           ELSE IF a \in { <<"b">>, <<"B">>, <<FLAT_SIGN>> } THEN 11
           ELSE 0)) % 12

\* A mode word that marks minor: m, min or minor in any case.
IsMinorWord(w) == Lower(w) \in { <<"m">>, <<"m","i","n">>, MINOR }

\* The Camelot code of the key with that pitch class and mode.
CodeOfKey(pitch, minor) ==
    key_name_to_camelot(
        IF minor THEN CHROMA_MINOR[pitch + 1] ELSE CHROMA_MAJOR[pitch + 1])

\* C9 (as claimed): for every note letter A-G with an optional accidental, in
\* either letter case, and an optional mode token, parse_key_tag_to_camelot
\* returns the Camelot code of that key: enharmonic spellings give the same
\* code, and major is assumed when no minor marker is present; a text that is
\* no Camelot code, no key name and no note pattern gives "". (For a capital B
\* after the note letter the formula accepts both readings of the claim: the
\* flat of that note, or a text that is no note pattern.)
C9_NotePattern ==
    (pc = "done" /\ fn = "parse_key_tag_to_camelot") =>
        /\ \A l \in NoteLetters, a \in Accidentals, g \in 0..MaxPad,
              w \in { x \in ModeWords : x = <<>> \/ Lower(x) \in MODE_TOKENS } :
               args[1] = <<l>> \o a \o Spaces(g) \o w =>
                  \/ ret = CodeOfKey(PitchClass(l, a), IsMinorWord(w))
                  \/ a = <<"B">> /\ ret = <<>>
        /\ args[1] \in { <<"H">>, <<"?","?">>, <<" ">>,
                         <<"n","o","t","-","a","-","k","e","y">>,
                         <<"C","m","o","l","l">> } => ret = <<>>

\* ---------------------------------------------- claims about detect_key

\* Every one of the 24 correlations is zero-variance or non-finite.
Degenerate(chroma) ==
    \/ chroma.zero_variance
    \/ \A i \in 1..12 : ~chroma.major[i].finite /\ ~chroma.minor[i].finite

\* C7 (as claimed): detect_key returns "" for a degenerate signal, one whose 24
\* correlations are all zero-variance or non-finite.
C7_DegenerateGivesNoKey ==
    (pc = "done" /\ fn = "detect_key" /\ Degenerate(args[1])) => ret = <<>>

\* ------------------------------------------- claims about analyze_track

\* parse_bpm_tag accepts the file's BPM tag.
TagBpmAccepted(file) == \E b \in parse_bpm_tag(file.metadata.bpm) : b.n > 0

\* C4 (as claimed): every record of analyze_track has bpm 0 or in [70,190],
\* whether it came from the signal estimator or from an accepted tag.
C4_BpmInDjBand ==
    (pc = "done" /\ fn = "analyze_track") =>
        (ret.bpm = Whole(0) \/ InBand(ret.bpm, 70, 190))

\* C4 (amended): every record of analyze_track has bpm 0 or in [40,260]: a bpm
\* from the signal estimator is 0 or in [70,190], a bpm from an accepted tag is
\* the tag's value as parse_bpm_tag returns it, in [40,260].
C4_BpmByOrigin ==
    (pc = "done" /\ fn = "analyze_track") =>
        /\ ret.bpm = Whole(0) \/ InBand(ret.bpm, 40, 260)
        /\ TagBpmAccepted(args[1]) =>
              /\ ret.bpm \in parse_bpm_tag(args[1].metadata.bpm)
              /\ InBand(ret.bpm, 40, 260)
        /\ ~TagBpmAccepted(args[1]) =>
              (ret.bpm = Whole(0) \/ InBand(ret.bpm, 70, 190))

\* C4 witness: a record whose bpm is an accepted tag's, outside [70,190].
C4_Witness ==
    /\ pc = "done" /\ fn = "analyze_track"
    /\ args[1].metadata.bpm = <<"2","0","0">>
    /\ ret.bpm = Whole(200)

\* parse_key_tag_to_camelot accepts the file's key tag.
TagKeyAccepted(file) == parse_key_tag_to_camelot(file.metadata.key) # <<>>

\* How many times the estimator is in the call log.
Invocations(name) == Cardinality({ i \in 1..Len(calls) : calls[i] = name })

\* C11: analyze_track stores the tag's BPM when parse_bpm_tag accepts it and the
\* tag's key when parse_key_tag_to_camelot accepts it, without invoking
\* detect_bpm / detect_key; otherwise it invokes that estimator exactly once
\* and stores what it returned.
C11_TagsBeforeEstimators ==
    (pc = "done" /\ fn = "analyze_track") =>
        LET file == args[1]
        IN  /\ IF TagBpmAccepted(file)
               THEN /\ ret.bpm \in parse_bpm_tag(file.metadata.bpm)
                    /\ Invocations("detect_bpm") = 0
               ELSE /\ ret.bpm \in detect_bpm(file.tempo)
                    /\ Invocations("detect_bpm") = 1
            /\ IF TagKeyAccepted(file)
               THEN /\ ret.musical_key = parse_key_tag_to_camelot(file.metadata.key)
                    /\ Invocations("detect_key") = 0
               ELSE /\ ret.musical_key = detect_key(file.chroma)
                    /\ Invocations("detect_key") = 1

\* C11 witness: one file with an accepted BPM tag and a rejected key tag, the
\* tempo estimator left alone and the key estimator run once.
C11_Witness ==
    /\ pc = "done" /\ fn = "analyze_track"
    /\ TagBpmAccepted(args[1]) /\ ~TagKeyAccepted(args[1])
    /\ args[1].metadata.key = <<"?","?">>
    /\ calls = <<"detect_key">>
    /\ ret.bpm = Whole(124) /\ ret.musical_key = <<"2","B">>

\* --------------------------------------------- claims about file names

\* The stem as parse_filename_metadata looks at it: whitespace collapsed, trimmed.
CollapsedStem(name) == Strip(CollapseSpaces(PathStem(name)))

\* The text has the form "<artist> - <title>", both parts non-empty.
ArtistDashTitleForm(stem) ==
    \E i \in 2..(Len(stem) - 3) : SubSeq(stem, i, i + 2) = <<" ", "-", " ">>

\* The hyphens that are neither the first nor the last character.
InnerHyphens(stem) == { j \in 2..(Len(stem) - 1) : stem[j] = "-" }

\* What parse_filename_metadata returns without an artist: the whole stem as
\* title, or the empty mapping for an empty stem.
WholeStemAsTitle(stem, result) ==
    /\ result.artist = None
    /\ result.title = IF stem = <<>> THEN None ELSE Some(stem)

\* C13 (as claimed): parse_filename_metadata returns artist and title exactly
\* when the collapsed stem has the form "<artist> - <title>" with both parts
\* non-empty, and else the whole stem as title with no artist.
C13_ArtistDashTitleOnly ==
    (pc = "done" /\ fn = "parse_filename_metadata") =>
        LET stem == CollapsedStem(args[1])
        IN  IF ArtistDashTitleForm(stem)
            THEN ret.artist # None /\ ret.title # None
            ELSE WholeStemAsTitle(stem, ret)

\* C13 (amended): parse_filename_metadata returns artist and title exactly when
\* the collapsed stem has a hyphen that is neither its first nor its last
\* character, blanks around it or not: the artist is the trimmed text before
\* the first such hyphen, the title the trimmed text after it, both non-empty.
\* Else it returns the whole stem as title with no artist (the empty mapping
\* for an empty stem).  It never returns an artist without a title.
C13_SplitsAtFirstInnerHyphen ==
    (pc = "done" /\ fn = "parse_filename_metadata") =>
        LET stem == CollapsedStem(args[1])
            hyphens == InnerHyphens(stem)
            j == CHOOSE h \in hyphens : \A g \in hyphens : h <= g
        IN  /\ IF hyphens # {}
               THEN /\ ret.artist = Some(Strip(SubSeq(stem, 1, j - 1)))
                    /\ ret.title = Some(Strip(SubSeq(stem, j + 1, Len(stem))))
                    /\ ret.artist[1] # <<>> /\ ret.title[1] # <<>>
               ELSE WholeStemAsTitle(stem, ret)
            /\ ret.artist # None => ret.title # None

\* C13 witness: "a-a-a.mp3" has no " - " and is split at its first hyphen.
C13_Witness ==
    /\ pc = "done" /\ fn = "parse_filename_metadata"
    /\ args[1] = <<"a","-","a","-","a",".","m","p","3">>
    /\ ret = [artist |-> Some(<<"a">>), title |-> Some(<<"a","-","a">>)]

\* C12: in the record of analyze_track the title is the trimmed tag title if
\* non-empty, else the file name heuristic's title, else the raw stem; the
\* artist is the trimmed tag artist if non-empty, else the heuristic's artist,
\* else empty; so the title is non-empty whenever the stem is.
C12_TitleArtistFallback ==
    (pc = "done" /\ fn = "analyze_track") =>
        LET file == args[1]
            heuristic == parse_filename_metadata(file.path)
        IN  /\ ret.title =
                   IF Strip(file.metadata.title) # <<>> THEN Strip(file.metadata.title)
                   ELSE IF heuristic.title # None THEN heuristic.title[1]
                   ELSE PathStem(file.path)
            /\ ret.artist =
                   IF Strip(file.metadata.artist) # <<>> THEN Strip(file.metadata.artist)
                   ELSE IF heuristic.artist # None THEN heuristic.artist[1]
                   ELSE <<>>
            /\ PathStem(file.path) # <<>> => ret.title # <<>>

\* C12 witness: the file " .mp3" with blank tags: the heuristic has nothing,
\* the title is the raw stem " " and the artist is empty.
C12_Witness ==
    /\ pc = "done" /\ fn = "analyze_track"
    /\ args[1].path = <<" ",".","m","p","3">>
    /\ args[1].metadata.title = <<" ">>
    /\ ret.title = <<" ">> /\ ret.artist = <<>>

\* ------------------------------------------ claims about review flags

\* The conditions of the review, the duration's aside, that hold for the
\* arguments, each with its reason.
ReviewConditions(a) ==
    { c \in { <<a[6] < 550, "Low energy confidence">>,
              <<a[5] <= 30 \/ a[5] >= 970, "Energy at boundary">>,
              <<Strip(a[1]) = <<>>, "Missing title">>,
              <<Strip(a[2]) = <<>>, "Missing artist">>,
              <<a[3].n <= 0, "Missing BPM">>,
              <<Strip(a[4]) = <<>>, "Missing key">> } : c[1] }

\* The reasons in the text (the tokens that are not the separator).
ReasonsIn(notes) == { notes[i] : i \in { j \in 1..Len(notes) : notes[j] # " | " } }

\* needs_review and the reasons are those of the conditions, the duration's
\* being tooShort.
ReviewAsConditions(tooShort) ==
    LET holding == { c[2] : c \in ReviewConditions(args) }
                    \cup (IF tooShort THEN { "Very short duration" } ELSE {})
    IN  /\ ret[1] = (holding # {})
        /\ ReasonsIn(ret[2]) = holding
        /\ Len(ret[2]) = IF holding = {} THEN 0 ELSE 2 * Cardinality(holding) - 1

\* C14 (as claimed): needs_review is True exactly when confidence < 0.55, or
\* energy <= 0.03 or >= 0.97, or duration < 45 s, or title, artist or key is
\* blank, or bpm <= 0; the reasons text has one reason per condition that holds.
C14_ReviewConditions ==
    (pc = "done" /\ fn = "classify_review_flags") => ReviewAsConditions(args[7] < 450)

\* C14 (amended): the same, the duration's condition being 0 < duration < 45 s:
\* a duration of 0 (unknown) or below is no reason for a review.
C14_ReviewConditionsKnownDuration ==
    (pc = "done" /\ fn = "classify_review_flags") =>
        ReviewAsConditions(args[7] > 0 /\ args[7] < 450)

\* C14 witness: a record of unknown duration (0) and low confidence is flagged
\* for the confidence alone.
C14_Witness ==
    /\ pc = "done" /\ fn = "classify_review_flags"
    /\ args[7] = 0 /\ args[6] = 549
    /\ ret = <<TRUE, <<"Low energy confidence">>>>

\* ------------------------------------- claims about the analysis window

\* clamp(x, low, high)
Clamp(x, low, high) == RatMax(low, RatMin(x, high))

\* C16: load_analysis_window analyzes the whole track with offset 0 when the
\* duration is below 180 s or unknown; else the window is min(120, 0.4 *
\* duration) and the offset max(30, 0.25 * duration) clamped into
\* [0, duration - window], so offset >= 0 and offset + window <= duration.
C16_AnalysisWindow ==
    (pc = "done" /\ fn = "load_analysis_window") =>
        LET duration == args[1]
            window == RatMin(Whole(120), Rat(4 * duration.n, 10 * duration.d))
        IN  IF RatLess(duration, Whole(180))
            THEN ret.whole /\ ret.offset = Whole(0)
            ELSE /\ ~ret.whole
                 /\ ret.window = window
                 /\ ret.offset = Clamp(RatMax(Whole(30), Rat(duration.n, 4 * duration.d)),
                                       Whole(0), RatSub(duration, window))
                 /\ RatLeq(Whole(0), ret.offset)
                 /\ RatLeq(RatAdd(ret.offset, ret.window), duration)

\* C16 witness: a track of 400 s is analyzed over 120 s from 100 s on.
C16_Witness ==
    /\ pc = "done" /\ fn = "load_analysis_window"
    /\ args[1] = Whole(400)
    /\ ret = [whole |-> FALSE, offset |-> Whole(100), window |-> Whole(120)]

\* ---------------------------------------- claims about the preview cue

\* C15 (as claimed): detect_preview_start returns 0 when the duration does not
\* exceed preview_length + 5 s; else the rounded cue c has c + preview_length
\* <= duration and analysis_offset <= c <= analysis_offset + window length.
C15_CueWithinBounds ==
    (pc = "done" /\ fn = "detect_preview_start") =>
        LET signal == args[1]
            duration == args[2]
            analysis_offset == args[3]
            preview_length == args[4]
        IN  IF RatLeq(duration, RatAdd(preview_length, Whole(5)))
            THEN ret = Whole(0)
            ELSE /\ RatLeq(RatAdd(ret, preview_length), duration)
                 /\ RatLeq(analysis_offset, ret)
                 /\ RatLeq(ret, RatAdd(analysis_offset, signal.length))

\* --------------------------------------------- claims about the energy

\* x lies in [0,1].
InUnit(x) == RatLeq(Whole(0), x) /\ RatLeq(x, Whole(1))

\* C17: for any signal, silence included, detect_energy_with_confidence
\* returns an energy and a confidence within [0,1].
C17_EnergyAndConfidenceInUnit ==
    (pc = "done" /\ fn = "detect_energy_with_confidence") =>
        InUnit(ret[1]) /\ InUnit(ret[2])

\* C17 witness: a signal louder than full scale and brighter than 5000 Hz,
\* whose scores are capped, gets energy 1.0; its confidence is 0.25.
C17_Witness ==
    /\ pc = "done" /\ fn = "detect_energy_with_confidence"
    /\ args[1].rms_mean = Whole(2) /\ args[1].centroid_mean = Whole(8000)
    /\ args[1].silence_ratio = Whole(0) /\ args[1].dynamic_range = Whole(0)
    /\ args[1].variance_ratio = Whole(0) /\ args[1].centroid_ratio = Whole(0)
    /\ ret = <<Whole(1), Rat(25, 100)>>

\* The louder mean RMS is materially higher: twice the quieter at least, and
\* above it by 0.01 at least.
MateriallyLouder(quiet, loud) ==
    /\ RatLeq(RatMul(Whole(2), quiet), loud)
    /\ RatLeq(RatAdd(quiet, Rat(1, 100)), loud)

\* C18 (as claimed): of two signals of the same mean spectral centroid, the
\* one of the materially higher mean RMS gets a strictly higher energy.
C18_LouderIsStrictlyHigher ==
    (pc = "done" /\ fn = "detect_energy"
        /\ MateriallyLouder(args[1].rms_mean, args[2].rms_mean)) =>
        RatLess(ret[1], ret[2])

\* C18 (amended): the louder signal's energy is never lower; it is strictly
\* higher when the quieter mean RMS is below the level 0.15 at which the RMS
\* score is full and the louder one, counted as 0.15 at most, is above it by
\* more than 0.0025; it is the same when both are at 0.15 or above.
C18_LouderUntilSaturation ==
    (pc = "done" /\ fn = "detect_energy") =>
        LET quiet == args[1].rms_mean
            loud == RatMin(args[2].rms_mean, Rat(15, 100))
        IN  /\ RatLeq(ret[1], ret[2])
            /\ RatLess(RatAdd(quiet, Rat(25, 10000)), loud) => RatLess(ret[1], ret[2])
            /\ RatLeq(Rat(15, 100), quiet) => ret[1] = ret[2]

\* C18 witness: mean RMS 0.2 against 0.4, both above 0.15: the same energy.
C18_Witness ==
    /\ pc = "done" /\ fn = "detect_energy"
    /\ args[1].rms_mean = Rat(2, 10) /\ args[2].rms_mean = Rat(4, 10)
    /\ args[1].centroid_mean = Whole(1000)
    /\ ret = <<Rat(68, 100), Rat(68, 100)>>

\* ------------------------------------------ claims about the file hash

\* C19 (as claimed): file_hash is deterministic, and any two files of any
\* length whose bytes differ get different digests.
C19_DifferentContentDifferentDigest ==
    (pc = "done" /\ fn = "file_hash") =>
        /\ ret[1] = ret[2]
        /\ args[1] # args[2] => ret[1] # ret[3]

\* C19 (amended): file_hash is deterministic, and two files get different
\* digests exactly when their first 1,048,576 bytes (ReadLimit here) differ:
\* files that differ only beyond them get the same digest.
C19_DigestOfFirstMegabyte ==
    (pc = "done" /\ fn = "file_hash") =>
        /\ ret[1] = ret[2]
        /\ (ret[1] # ret[3]) <=>
               (ReadBytes(args[1], ReadLimit) # ReadBytes(args[2], ReadLimit))

\* C19 witness: two files longer than what is read, equal up to there and
\* different in their last byte, with one digest.
C19_Witness ==
    /\ pc = "done" /\ fn = "file_hash"
    /\ Len(args[1]) = MaxFileLen /\ Len(args[2]) = MaxFileLen
    /\ ReadBytes(args[1], ReadLimit) = ReadBytes(args[2], ReadLimit)
    /\ args[1][MaxFileLen] # args[2][MaxFileLen]
    /\ ret[1] = ret[3]

\* ----------------------------------------------- claims about the scan

\* C20 (as claimed): when the stored track has an analysis_version below
\* ANALYSIS_VERSION, the next scan of its file, by the CLI or by
\* services.scan_directory, analyzes it again and does not skip it, also with
\* the file hash unchanged and a title present; the record written carries
\* ANALYSIS_VERSION.
C20_StaleVersionIsReanalyzed ==
    [][(track # None /\ track[1].analysis_version < ANALYSIS_VERSION) =>
          (ret' = "analyzed" /\ track'[1].analysis_version = ANALYSIS_VERSION)]_vars

\* ---------------------------------------------- claims about the library

\* C6 (as claimed): every record's musical_key is "" or a Camelot code 1..12
\* with A or B, also in the record produced by applying a manual override.
C6_KeyIsCamelot ==
    track # None => track[1].musical_key \in Codes \cup { <<>> }

\* The key analyze_track takes from the tag or from detect_key is "" or a
\* Camelot code.
AnalyzedKeyIsCamelot ==
    (pc = "done" /\ fn = "analyze_track") => ret.musical_key \in Codes \cup { <<>> }

\* ---------------------------------- claims about the scan of a directory

\* The files of the directory that cannot be read or decoded.
BadFiles(files) ==
    { i \in 1..Len(files) : files[i] \in { "undecodable", "unreadable" } }

\* C21 (as claimed): a file that cannot be read or decoded is one error for
\* that file only: the scan returns normally, every file is counted exactly
\* once (analyzed + skipped + errors = total) and errors is the number of
\* such files.
C21_BadFileIsOneError ==
    (pc = "done" /\ fn \in { "scan_directory", "scan" }) =>
        /\ ret.outcome = "returned"
        /\ ret.analyzed + ret.skipped + ret.errors = ret.total
        /\ ret.errors = Cardinality(BadFiles(args[1]))

\* What does hold: a file that analyze_track cannot decode is one error and
\* the scan goes on, as long as every file can be opened.
UndecodableIsOneError ==
    (pc = "done" /\ fn \in { "scan_directory", "scan" }
        /\ \A i \in 1..Len(args[1]) : args[1][i] # "unreadable") =>
        /\ ret.outcome = "returned"
        /\ ret.analyzed + ret.skipped + ret.errors = ret.total
        /\ ret.errors = Cardinality(BadFiles(args[1]))

\* ------------------------------------- claims about _apply_track_override

\* The columns an override can replace.
OverridableColumns == { "bpm", "musical_key", "energy_level" }

\* The row holds a value for the column.
HoldsValue(row, column) == row # None /\ row[1][column] # None

\* C22: the record returned by _apply_track_override differs from the one
\* given only in has_overrides and in those of bpm, musical_key, energy_level
\* for which the stored override holds a value; every other field is
\* unchanged, and with no stored override has_overrides is false and all other
\* fields are unchanged.
C22_OverrideFrame ==
    (pc = "done" /\ fn = "_apply_track_override") =>
        /\ DOMAIN ret = DOMAIN args[1]
        /\ \A column \in DOMAIN ret :
              ret[column] # args[1][column] =>
                 \/ column = "has_overrides"
                 \/ column \in OverridableColumns /\ HoldsValue(args[2], column)
        /\ args[2] = None => ~ret.has_overrides

\* An override with a bpm and no energy has been applied to a track with a
\* review note: the bpm is replaced, the energy and the note are kept.
C22_Witness ==
    /\ pc = "done" /\ fn = "_apply_track_override"
    /\ args[2] # None /\ args[2][1].bpm # None /\ args[2][1].energy_level = None
    /\ ret.bpm # args[1].bpm
    /\ ret.energy_level = args[1].energy_level
    /\ ret.review_notes = <<"L","o","w">>
    /\ ret.has_overrides /\ ~args[1].has_overrides

\* --------------------------------------- claims about the double-time rule

\* At least one of the three scalar estimators is >= 120 BPM.
SomeEstimatorAtLeast120(fusion) ==
    \E value \in { fusion.beat_value, fusion.feature_value, fusion.dynamic_value } :
        RatLeq(Whole(120), value)

\* C23: the doubled tempo replaces the refined winner exactly when the winner
\* is below 100 BPM, its double scores at least 90% of the winner's score and
\* at least one of the three scalar estimators is >= 120 BPM (else the winner
\* stays); the value detect_bpm returns is 0 or lies in [70,190] and is
\* rounded to one decimal.
C23_DoubleTimeRule ==
    (pc = "done" /\ fn = "detect_bpm") =>
        /\ (~args[1].onset_degenerate /\ args[1].has_candidates) =>
              IF /\ RatLess(args[1].best_tempo, Whole(100))
                 /\ 100 * args[1].doubled_score >= 90 * args[1].best_score
                 /\ SomeEstimatorAtLeast120(args[1])
              THEN ret.best_tempo = Double(args[1].best_tempo)
              ELSE ret.best_tempo = args[1].best_tempo
        /\ \/ ret.bpm = Whole(0)
           \/ RatLeq(Whole(70), ret.bpm) /\ RatLeq(ret.bpm, Whole(190))
        /\ (10 * ret.bpm.n) % ret.bpm.d = 0

\* A winner of 87 BPM whose double scores 90% of its score, with one estimator
\* at 174: 174.0 is returned.
C23_Witness ==
    /\ pc = "done" /\ fn = "detect_bpm"
    /\ args[1].has_candidates
    /\ args[1].best_tempo = Whole(87)
    /\ args[1].best_score = 100 /\ args[1].doubled_score = 90
    /\ args[1].beat_value = Whole(0) /\ args[1].feature_value = Whole(174)
    /\ ret.best_tempo = Whole(174) /\ ret.bpm = Whole(174)

\* ------------------------------------- claims about the manual overrides

\* The stored record shows what analyze_track gives for the file in bpm,
\* musical_key and energy_level.
ShowsAnalyzerOutputs ==
    \E r \in analyze_track(args[1]) :
        /\ track[1].bpm = r.bpm
        /\ track[1].musical_key = r.musical_key
        /\ track[1].energy_level = r.energy_level

\* C24 (as claimed): after clear_track_override, whether or not the audio file
\* still exists, no override row remains, the stored record has has_overrides
\* false, and its bpm, musical_key and energy_level are the analyzer's outputs
\* and not the values overridden before.
C24_ClearRestoresAnalyzerOutputs ==
    (pc = "stored" /\ fn = "clear_track_override") =>
        /\ override = None
        /\ track # None /\ ~track[1].has_overrides
        /\ ShowsAnalyzerOutputs

\* What does hold after clear_track_override: the row is gone and the flag is
\* false.
ClearRemovesRowAndFlag ==
    (pc = "stored" /\ fn = "clear_track_override") =>
        /\ override = None
        /\ track # None /\ ~track[1].has_overrides

\* ----------------------------------- claims about delete_tracks_by_ids

\* The tracks the request deletes: those that exist among the requested ids.
DeletedTracks == { t \in args[1].tracks : \E i \in 1..Len(args[2]) : args[2][i] = t.id }

DeletedIds == { t.id : t \in DeletedTracks }

\* The sets that contained a deleted track.
SetsOfDeleted == { r.set_id : r \in { s \in args[1].set_tracks : s.track_id \in DeletedIds } }

\* C25: delete_tracks_by_ids removes every existing requested track with all
\* set_tracks rows and track_overrides rows that refer to it and all gaps of
\* each set that contained it, leaves the rows of other tracks (and the gaps
\* of other sets) unchanged and reports requested = deleted + missing;
\* afterwards no set_tracks or track_overrides row refers to a deleted track.
C25_DeleteRemovesDependents ==
    (pc = "done" /\ fn \in { "delete_tracks_by_ids", "delete_tracks" }) =>
        /\ ret.db.tracks = args[1].tracks \ DeletedTracks
        /\ ret.db.set_tracks = { r \in args[1].set_tracks : r.track_id \notin DeletedIds }
        /\ ret.db.overrides =
              { o \in args[1].overrides : \A t \in DeletedTracks : t.file_path # o }
        /\ ret.db.gaps = { g \in args[1].gaps : g.set_id \notin SetsOfDeleted }
        /\ ret.requested = ret.deleted + ret.missing
        /\ ret.deleted = Cardinality(DeletedTracks)
        /\ \A r \in ret.db.set_tracks : r.track_id \notin DeletedIds
        /\ \A t \in DeletedTracks : t.file_path \notin ret.db.overrides

\* Track 1, in set 1 with track 2 and overridden, is deleted with a missing id
\* requested as well: its rows and the gap of set 1 go, track 2 stays in set 1.
C25_Witness ==
    /\ pc = "done" /\ fn = "delete_tracks_by_ids"
    /\ args[2] = <<1, 3>>
    /\ [id |-> 1, file_path |-> PathOf(1)] \in args[1].tracks
    /\ PathOf(1) \in args[1].overrides
    /\ [set_id |-> 1, position |-> 1, track_id |-> 1] \in args[1].set_tracks
    /\ [set_id |-> 1, position |-> 2, track_id |-> 2] \in ret.db.set_tracks
    /\ [set_id |-> 1, position |-> 1] \in args[1].gaps
    /\ ret.db.gaps \subseteq { [set_id |-> 2, position |-> 1] }
    /\ ret.deleted = 1 /\ ret.missing = 1 /\ ret.requested = 2
    /\ PathOf(1) \notin ret.db.overrides

\* -------------------------------- claims about _order_tracks_for_flow

\* The ids of the list are distinct.
DistinctIds(tracks) ==
    \A i \in 1..Len(tracks), j \in 1..Len(tracks) : i # j => tracks[i].id # tracks[j].id

\* C27: for a list of tracks with distinct ids, whatever the description and
\* the genre profiles, _order_tracks_for_flow returns a permutation of its
\* input: the same length and every track of the input exactly once.
C27_OrderIsPermutation ==
    (pc = "done" /\ fn = "_order_tracks_for_flow" /\ DistinctIds(args[1])) =>
        /\ Len(ret) = Len(args[1])
        /\ { ret[i].id : i \in 1..Len(ret) } = { args[1][i].id : i \in 1..Len(args[1]) }
        /\ \A i \in 1..Len(args[1]) :
              Cardinality({ j \in 1..Len(ret) : ret[j] = args[1][i] }) = 1

\* Four tracks given by rising id with "build to a peak and cool down" hints
\* come back in another order.
C27_Witness ==
    /\ pc = "done" /\ fn = "_order_tracks_for_flow"
    /\ Len(args[1]) = 4 /\ DistinctIds(args[1])
    /\ args[2].peak /\ args[2].cooldown
    /\ args[3] # <<>>
    /\ ret # args[1]
    /\ ret[1] # args[1][1]

\* ----------------------------------------------- claims about the gaps

\* The transition between the rows i and i + 1 of the set is weak.
WeakAt(i) ==
    LET track_a == get_track_by_id(tables, tables.set_tracks[i].track_id)
        track_b == get_track_by_id(tables, tables.set_tracks[i + 1].track_id)
    IN  /\ track_a # None /\ track_b # None
        /\ \A score \in transition_score(track_a[1], track_b[1], "any") :
              score < WEAK_THRESHOLD

\* The rows of the set a weak transition leaves from, in order.
WeakRows ==
    SelectSeq([i \in 1..(Len(tables.set_tracks) - 1) |-> i], WeakAt)

\* C26 (as claimed): each Gap stored by analyze_gaps records in its position
\* field the position in the set at which the weak transition occurs, that of
\* the track left or that of the track entered.
C26_GapPositionIsSetPosition ==
    (pc = "done" /\ fn = "analyze_gaps" /\ ret # <<>>) =>
        /\ Len(tables.gaps) = Len(WeakRows)
        /\ \A k \in 1..Len(tables.gaps) :
              tables.gaps[k].position \in
                  { tables.set_tracks[WeakRows[k]].position,
                    tables.set_tracks[WeakRows[k] + 1].position }

\* What does hold: the position stored is the rank of the gap among the weak
\* transitions of the call.
GapPositionIsRank ==
    (pc = "done" /\ fn = "analyze_gaps" /\ ret # <<>>) =>
        \A k \in 1..Len(tables.gaps) : tables.gaps[k].position = k

\* The stored gap is the one analyze_gaps builds for the transition.
GapOf(gap, trans) ==
    /\ gap.suggested_key = suggested_key(trans.from_track, trans.to_track)
    /\ 2 * gap.suggested_bpm.n
          = (trans.from_track.bpm.n + trans.to_track.bpm.n) * gap.suggested_bpm.d

\* C30 (as claimed): after every call of analyze_gaps, across any sequence of
\* set edits and repeated analyses, the gaps stored for the set correspond
\* one-to-one and in order to the weak transitions the call returned; when
\* it returned none, no gap remains stored.
C30_GapsMatchWeakTransitions ==
    (pc = "done" /\ fn = "analyze_gaps") =>
        /\ Len(tables.gaps) = Len(ret)
        /\ \A k \in 1..Len(ret) : GapOf(tables.gaps[k], ret[k])

\* What does hold: a call that returns weak transitions stores their gaps.
GapsMatchWhenWeak ==
    (pc = "done" /\ fn = "analyze_gaps" /\ ret # <<>>) =>
        /\ Len(tables.gaps) = Len(ret)
        /\ \A k \in 1..Len(ret) : GapOf(tables.gaps[k], ret[k])

\* ------------------------------- claims about the library's operations

\* The override row holds a value for the column (not NULL, and for the key
\* not the empty text a blank argument is stored as).
RowHolds(column) ==
    /\ override # None
    /\ override[1][column] # None
    /\ column = "musical_key" => override[1][column][1] # <<>>

\* C28 (as claimed): after any sequence of scans (services.scan_directory or
\* the CLI scan), reanalyze_track, save_track_override, clear_track_override
\* and delete_tracks, the stored track has has_overrides = true if and only
\* if a track_overrides row exists for its file_path, and then the stored
\* bpm, musical_key and energy_level equal the row's values that are set.
C28_FlagAndValuesFollowRow ==
    track # None =>
        /\ track[1].has_overrides <=> override # None
        /\ RowHolds("bpm") => track[1].bpm = override[1].bpm[1]
        /\ RowHolds("musical_key") => track[1].musical_key = override[1].musical_key[1]
        /\ RowHolds("energy_level") => track[1].energy_level = override[1].energy_level[1]

\* C29 (as claimed): after save_track_override the stored row holds exactly
\* the bpm, musical_key (normalised) and energy_level of the call, a field
\* omitted in the call is cleared, and the stored track then shows the
\* analyzer's value for that field.
C29_LatestSaveWins ==
    (pc = "stored" /\ fn = "save_track_override") =>
        /\ override = Some([bpm |-> args[2], musical_key |-> NormalizedKey(args[3]),
                            energy_level |-> args[4]])
        /\ args[2] = None =>
              track[1].bpm \in { r.bpm : r \in analyze_track(args[1]) }
        /\ args[3] = None =>
              track[1].musical_key \in { r.musical_key : r \in analyze_track(args[1]) }
        /\ args[4] = None =>
              track[1].energy_level \in { r.energy_level : r \in analyze_track(args[1]) }

\* What does hold: the row is that of the latest call.
RowIsLatestSave ==
    (pc = "stored" /\ fn = "save_track_override") =>
        override = Some([bpm |-> args[2], musical_key |-> NormalizedKey(args[3]),
                         energy_level |-> args[4]])

====
